---- MODULE Spec2Model ----
(***************************************************************************)
(* A model of doc-agent's document-extraction pipeline:                    *)
(*   - the lenient response schema (packages/extract/src/schemas.ts),      *)
(*   - the provider adapters extractWithGemini / extractWithOllama,        *)
(*   - the orchestrator extractDocument, and getMimeType,                  *)
(*   - the document repository's saveDocument (packages/storage),          *)
(*   - the CLI's hooks useOllama and useExtraction and the MCP server's    *)
(*     tool handler (packages/cli).                                        *)
(* One extractDocument call is followed from its arguments to its return   *)
(* value or its thrown error; every await is a step.                       *)
(***************************************************************************)
EXTENDS Integers, Sequences, FiniteSets, TLC

VARIABLES
  pc,            \* where the extractDocument call is
  filePath,      \* argument: the source path
  fileBytes,     \* the bytes readFileSync would return
  fileReadable,  \* whether readFileSync succeeds
  config,        \* argument: [aiProvider, geminiApiKey]
  callerOnStream,\* whether options.onStream was given
  base64,        \* extractDocument's local: the encoded file
  retryCount,    \* extractWithOllama's parameter of the running invocation
  onStream,      \* extractWithOllama's parameter: is an observer attached
  pages,         \* what pdfToImages returned: 0 for null, else the page count
  imageBase64,   \* extractWithOllama's local: the image that is sent
  ocrText,       \* extractWithOllama's local: pages whose text is non-empty
  request,       \* the body of the request that is outstanding or was sent last
  stream,        \* the response stream: its fragments, the read position
  fullResponse,  \* the model text as the adapter reassembled it
  parsed,        \* the JSON value parsed from the model text
  adapterCalls,  \* every invocation of a provider adapter, in order
  fetchCalls,    \* number of POSTs to /api/generate
  geminiCalls,   \* number of generateContent calls
  payloads,      \* the payload each daemon response carried, per attempt
  attemptErrors, \* the error each failed attempt of extractWithOllama ended in
  events,        \* what the caller's observer received, in order
  genId,         \* the identifier crypto.randomUUID() produced in this call
  genTime,       \* the timestamp new Date() produced in this call
  result,        \* the record extractDocument returned
  error,         \* the error extractDocument raised
  input,         \* schema check: the payload handed to DocumentDataSchema.parse
  output,        \* schema check: what the parse produced
  ocrCall,       \* one call of ocrImages: its arguments, recognitions, result
  pdfCall,       \* one call of pdfToImages: the document, the pages read, result
  host,          \* the JavaScript host: how its Date reads a non-ISO string
  revalidated,   \* schema check: the parse of an already normalized record
  mimeCall,      \* one call of getMimeType: the file name and the answer
  repo,          \* DocumentRepository: the rows of the documents table, the calls
  ollama,        \* the useOllama hook: its state, isReady, the pending service call
  extraction,    \* the useExtraction hook: its state, refs, throttle timer, clock
  mcp            \* one call of the MCP tool handler: the request and its outcome

cliVars == <<ollama, extraction, mcp>>

vars == <<pc, filePath, fileBytes, fileReadable, config, callerOnStream, base64,
          retryCount, onStream, pages, imageBase64, ocrText, request, stream,
          fullResponse, parsed, adapterCalls, fetchCalls, geminiCalls, payloads,
          attemptErrors, events, genId, genTime, result, error, input, output, ocrCall, pdfCall,
                 host, cliVars, revalidated, mimeCall, repo>>

extractionVars == <<pc, filePath, fileBytes, fileReadable, config, callerOnStream,
          base64, retryCount, onStream, pages, imageBase64, ocrText, request,
          stream, fullResponse, parsed, adapterCalls, fetchCalls, geminiCalls,
          payloads, attemptErrors, events, genId, genTime, result, error>>

(***************************************************************************)
(* JSON-like values.  Every value is [t |-> tag, v |-> content]; an object *)
(* is a record of its own keys, an array a sequence.  Numbers are counted  *)
(* in hundredths (22.40 is 2240), so that the decimal strings a model      *)
(* emits have an exact image.                                              *)
(***************************************************************************)
JUndef == [t |-> "undefined", v |-> 0]
JNull == [t |-> "null", v |-> 0]
JNaN == [t |-> "nan", v |-> 0]
JStr(s) == [t |-> "str", v |-> s]
JNum(n) == [t |-> "num", v |-> n]
JBool(b) == [t |-> "bool", v |-> b]
JArr(a) == [t |-> "arr", v |-> a]
JObj(r) == [t |-> "obj", v |-> r]
JUuid(n) == [t |-> "uuid", v |-> n]
JDate(n) == [t |-> "date", v |-> n]

\* obj[key] in JavaScript: undefined for a key the object does not have, and
\* for every key of a value that is not an object.
Get(o, k) == IF o.t = "obj" /\ k \in DOMAIN o.v THEN o.v[k] ELSE JUndef

\* (a variant that falls through on every falsy value, as a || b would)
CoalesceFalsy(a, b) ==
  IF \/ a.t \in {"undefined", "null", "nan"}
     \/ a.t = "str" /\ a.v = ""
     \/ a.t = "num" /\ a.v = 0
  THEN b ELSE a
\* a ?? b
Coalesce(a, b) == IF a.t \in {"undefined", "null"} THEN b ELSE a

\* a || b
Falsy(a) ==
  \/ a.t \in {"undefined", "null", "nan"}
  \/ a.t = "str" /\ a.v = ""
  \/ a.t = "num" /\ a.v = 0
  \/ a.t = "bool" /\ a.v = FALSE
\* (a variant that falls through on null and undefined only, as a ?? b would)
OrElseNullish(a, b) == IF a.t \in {"undefined", "null"} THEN b ELSE a
OrElse(a, b) == IF Falsy(a) THEN b ELSE a

\* Number(string): the decimal strings have their value, the empty and the
\* blank string are 0, every other text is NaN.
StringToNumber(s) ==
  CASE s = "" -> JNum(0)
    [] s = " " -> JNum(0)
    [] s = "7" -> JNum(700)
    [] s = "22.40" -> JNum(2240)
    [] s = "50.99" -> JNum(5099)
    [] s = "-12.50" -> JNum(-1250)
    [] OTHER -> JNaN

\* Number(x), the coercion z.coerce.number() applies before it validates.
RECURSIVE ToNumber(_)
ToNumber(x) ==
  CASE x.t = "num" -> x
    [] x.t = "null" -> JNum(0)
    [] x.t = "bool" -> JNum(IF x.v THEN 100 ELSE 0)
    [] x.t = "str" -> StringToNumber(x.v)
    [] x.t = "arr" ->
         IF Len(x.v) = 0 THEN JNum(0)
         ELSE IF Len(x.v) > 1 THEN JNaN
         ELSE IF x.v[1].t \in {"undefined", "null"} THEN JNum(0)
         ELSE IF x.v[1].t \in {"num", "str", "arr"} THEN ToNumber(x.v[1])
         ELSE JNaN
    [] OTHER -> JNaN

(***************************************************************************)
(* The zod combinators the schemas are built from.  A parse returns        *)
(* [ok |-> TRUE, v |-> value] or Invalid (parse() then throws a ZodError). *)
(***************************************************************************)
Valid(x) == [ok |-> TRUE, v |-> x]
Invalid == [ok |-> FALSE, v |-> JUndef]

ZodString(x) == IF x.t = "str" THEN Valid(x) ELSE Invalid

ZodCoerceNumber(x) ==
  LET n == ToNumber(x) IN IF n.t = "num" THEN Valid(n) ELSE Invalid

\* .optional() and .nullish() around a schema whose verdict on x is inner
ZodOptional(x, inner) == IF x.t = "undefined" THEN Valid(x) ELSE inner

ZodNullish(x, inner) == IF x.t \in {"undefined", "null"} THEN Valid(x) ELSE inner

DocumentTypes == {"invoice", "receipt", "bank_statement", "other"}

ZodEnum(x) == IF x.t = "str" /\ x.v \in DocumentTypes THEN Valid(x) ELSE Invalid

\* Variants of the type schema: without .catch('other') an invalid value
\* fails the parse; with z.string() in place of the enum any text passes.
TypeSchemaStrict(x) ==
  ZodEnum(IF x.t = "undefined" THEN JStr("other") ELSE x)
TypeSchemaAnyString(x) ==
  IF x.t = "str" THEN Valid(x) ELSE Valid(JStr("other"))

\* z.enum([...]).default('other').catch('other')
TypeSchema(x) ==
  LET defaulted == IF x.t = "undefined" THEN JStr("other") ELSE x
      inner == ZodEnum(defaulted)
  IN  IF inner.ok THEN inner ELSE Valid(JStr("other"))

\* z.coerce.number().optional().transform(v => v !== undefined && !isNaN(v) ? v : undefined)
safeNumber(x) ==
  LET r == ZodOptional(x, ZodCoerceNumber(x))
  IN  IF ~r.ok THEN Invalid
      ELSE IF r.v.t # "undefined" /\ r.v.t # "nan" THEN Valid(r.v)
      ELSE Valid(JUndef)

OptionalString(x) == ZodOptional(x, ZodString(x))
NullishString(x) == ZodNullish(x, ZodString(x))
NullishNumber(x) == ZodNullish(x, ZodCoerceNumber(x))

LineItemSchema(x) ==
  IF x.t # "obj" THEN Invalid
  ELSE
    LET description == OptionalString(Get(x, "description"))
        name == OptionalString(Get(x, "name"))
        item == OptionalString(Get(x, "item"))
        quantity == safeNumber(Get(x, "quantity"))
        qty == safeNumber(Get(x, "qty"))
        unitPrice == safeNumber(Get(x, "unitPrice"))
        unit_price == safeNumber(Get(x, "unit_price"))
        price == safeNumber(Get(x, "price"))
        total == safeNumber(Get(x, "total"))
        amount == safeNumber(Get(x, "amount"))
    IN  IF ~(description.ok /\ name.ok /\ item.ok /\ quantity.ok /\ qty.ok
             /\ unitPrice.ok /\ unit_price.ok /\ price.ok /\ total.ok /\ amount.ok)
        THEN Invalid
        ELSE Valid(JObj([
               description |-> OrElse(description.v,
                                 OrElse(name.v, OrElse(item.v, JStr("Unknown item")))),
               quantity |-> Coalesce(quantity.v, qty.v),
               unitPrice |-> Coalesce(unitPrice.v, unit_price.v),
               total |-> Coalesce(total.v, Coalesce(price.v, amount.v))]))

\* z.array(LineItemSchema).nullish()
ItemsSchema(x) ==
  IF x.t \in {"undefined", "null"} THEN Valid(x)
  ELSE IF x.t # "arr" THEN Invalid
  ELSE IF \E i \in 1..Len(x.v) : ~LineItemSchema(x.v[i]).ok THEN Invalid
  ELSE Valid(JArr([i \in 1..Len(x.v) |-> LineItemSchema(x.v[i]).v]))

\* The hosts the code can run on.  ECMAScript fixes how Date reads the ISO
\* forms only; another text is read as the engine sees fit.  An engine with
\* the legacy reader (V8) takes "3/5/24" for midnight of 5 March 2024 in the
\* LOCAL time zone; an engine without it answers Invalid Date.
Hosts ==
  { [slashDates |-> TRUE,  eastOfUtc |-> FALSE],
    [slashDates |-> TRUE,  eastOfUtc |-> TRUE],
    [slashDates |-> FALSE, eastOfUtc |-> FALSE] }
UtcHost == [slashDates |-> TRUE, eastOfUtc |-> FALSE]

\* new Date(s).toISOString().split('T')[0], or NaN for an Invalid Date.  An
\* ISO calendar date is UTC midnight and reads back as itself.  Local
\* midnight east of Greenwich is still the day before in UTC, which is the
\* day toISOString() prints.
DateParse(s) ==
  CASE s = "2025-12-07" -> JStr("2025-12-07")
    [] s = "2024-03-05" -> JStr("2024-03-05")
    [] s = "2024-03-04" -> JStr("2024-03-04")
    [] s = "3/5/24" -> IF ~host.slashDates THEN JNaN
                       ELSE IF host.eastOfUtc THEN JStr("2024-03-04")
                       ELSE JStr("2024-03-05")
    [] OTHER -> JNaN

\* dateStr.match(/^(\d{1,2})\/(\d{1,2})\/(\d{2,4})/) and the ISO text built from
\* the match: 20YY for a two-digit year, month and day padded to two digits.
\* The empty string stands for no match.
MdyCandidate(s) ==
  CASE s = "3/5/24" -> "2024-03-05"
    [] s = "13/45/24" -> "2024-13-45"
    [] OTHER -> ""

normalizeDate(dateStr) ==
  IF Falsy(dateStr) THEN JUndef
  ELSE LET parsedDate == DateParse(dateStr.v)
           candidate == MdyCandidate(dateStr.v)
       IN  IF parsedDate.t # "nan" THEN parsedDate
           ELSE IF candidate # "" /\ DateParse(candidate).t # "nan"
                THEN DateParse(candidate)
                ELSE JUndef

DocumentDataSchema(x) ==
  IF x.t # "obj" THEN Invalid
  ELSE
    LET type == TypeSchema(Get(x, "type"))
        vendor == NullishString(Get(x, "vendor"))
        store_name == NullishString(Get(x, "store_name"))
        merchant == NullishString(Get(x, "merchant"))
        business_name == NullishString(Get(x, "business_name"))
        amount == NullishNumber(Get(x, "amount"))
        total == NullishNumber(Get(x, "total"))
        total_amount == NullishNumber(Get(x, "total_amount"))
        date == NullishString(Get(x, "date"))
        items == ItemsSchema(Get(x, "items"))
        rawText == NullishString(Get(x, "rawText"))
    IN  IF ~(type.ok /\ vendor.ok /\ store_name.ok /\ merchant.ok /\ business_name.ok
             /\ amount.ok /\ total.ok /\ total_amount.ok /\ date.ok /\ items.ok
             /\ rawText.ok)
        THEN Invalid
        ELSE LET rawDate == Coalesce(date.v, JUndef)
             IN Valid(JObj([
                  type |-> type.v,
                  vendor |-> Coalesce(vendor.v, Coalesce(store_name.v,
                               Coalesce(merchant.v, Coalesce(business_name.v, JUndef)))),
                  amount |-> Coalesce(amount.v, Coalesce(total.v,
                               Coalesce(total_amount.v, JUndef))),
                  date |-> normalizeDate(rawDate),
                  dateRaw |-> rawDate,
                  items |-> Coalesce(items.v, JUndef),
                  rawText |-> Coalesce(rawText.v, JUndef)]))

(***************************************************************************)
(* Paths, file contents and their encodings.                               *)
(***************************************************************************)
\* A path is the list of its '/'-separated parts and the extension of the
\* last part as extname() returns it.
SamplePaths ==
  { [parts |-> <<"", "docs", "invoice.pdf">>, ext |-> ".pdf"],
    [parts |-> <<"receipt.PNG">>, ext |-> ".PNG"],
    [parts |-> <<"", "scans", "statement">>, ext |-> ""] }

SampleContents == { <<77, 97>>, <<77, 97, 110, 255>> }

\* (a variant that compares the extension as it is spelled)
KeepCase(ext) == ext

\* String.prototype.toLowerCase on the extensions that occur
ToLowerCase(ext) ==
  CASE ext = ".PNG" -> ".png"
    [] ext = ".PDF" -> ".pdf"
    [] ext = ".JPG" -> ".jpg"
    [] ext = ".Pdf" -> ".pdf"
    [] ext = ".Png" -> ".png"
    [] ext = ".JPEG" -> ".jpeg"
    [] ext = ".JpEg" -> ".jpeg"
    [] ext = ".GIF" -> ".gif"
    [] ext = ".WEBP" -> ".webp"
    [] ext = ".WebP" -> ".webp"
    [] ext = ".TXT" -> ".txt"
    [] OTHER -> ext

getMimeType(path) ==
  LET ext == ToLowerCase(path.ext)
  IN  CASE ext = ".pdf" -> "application/pdf"
        [] ext = ".png" -> "image/png"
        [] ext = ".jpg" -> "image/jpeg"
        [] ext = ".jpeg" -> "image/jpeg"
        [] ext = ".gif" -> "image/gif"
        [] ext = ".webp" -> "image/webp"
        [] OTHER -> "application/pdf"

IsImageMime(mime) == mime \in {"image/png", "image/jpeg", "image/gif", "image/webp"}

\* filePath.split('/').pop() || 'unknown'
Basename(path) ==
  LET last == path.parts[Len(path.parts)]
  IN  IF last = "" THEN "unknown" ELSE last

\* Buffer.toString('base64'): the sextets of the bytes, 64 standing for '='.
RECURSIVE Base64(_)
Base64(bytes) ==
  IF Len(bytes) = 0 THEN <<>>
  ELSE IF Len(bytes) = 1 THEN
    << bytes[1] \div 4, (bytes[1] % 4) * 16, 64, 64 >>
  ELSE IF Len(bytes) = 2 THEN
    << bytes[1] \div 4, (bytes[1] % 4) * 16 + bytes[2] \div 16,
       (bytes[2] % 16) * 4, 64 >>
  ELSE
    << bytes[1] \div 4, (bytes[1] % 4) * 16 + bytes[2] \div 16,
       (bytes[2] % 16) * 4 + bytes[3] \div 64, bytes[3] % 64 >>
      \o Base64(SubSeq(bytes, 4, Len(bytes)))

(***************************************************************************)
(* What the model backends may answer.                                     *)
(***************************************************************************)
ModelPayloads ==
  { JObj([type |-> JStr("invoice"), vendor |-> JStr("Acme"), amount |-> JNum(2240)]),
    JObj([type |-> JStr("memo"), vendor |-> JStr("Acme")]),
    JObj([vendor |-> JStr("Acme")]),
    JObj([type |-> JNull]),
    JObj([type |-> JStr("memo"), items |-> JStr("none")]),
    JObj([type |-> JStr("receipt"), id |-> JStr("model-id"),
          filename |-> JStr("model.pdf"), extractedAt |-> JStr("2020-01-01")]),
    JNull,
    JNum(4200) }

ValidPayload ==
  JObj([type |-> JStr("invoice"), vendor |-> JStr("Acme"), amount |-> JNum(2240)])
MistypedPayload == JObj([type |-> JStr("receipt"), vendor |-> JNum(700)])

\* The text a backend returns: a payload as JSON ("json"), the same inside a
\* markdown fence ("fenced") or inside prose ("embedded"), or text that holds
\* no JSON value ("garbage").  A JSON array that wraps one object is JSON as
\* it stands, and the text from its first '{' to its last '}' is the object.
ModelTexts ==
  { [form |-> "json", payload |-> p] : p \in ModelPayloads }
    \cup { [form |-> "json", payload |-> JArr(<<ValidPayload>>)] }
    \cup { [form |-> f, payload |-> p] :
             f \in {"fenced", "embedded"}, p \in {ValidPayload, MistypedPayload} }
    \cup { [form |-> "fenced", payload |-> JNum(4200)],
           [form |-> "garbage", payload |-> JUndef] }

MaxPages == 2
MaxFragments == 2

\* What crypto.randomUUID() and new Date() may give when a record is stamped
Stamps == { [id |-> 101, time |-> 1700], [id |-> 102, time |-> 1800] }

NoError == [kind |-> "none", detail |-> ""]
Err(kind, detail) == [kind |-> kind, detail |-> detail]

LogEvent(level, message) ==
  [type |-> "log", level |-> level, content |-> message, n |-> 0]
PromptEvent(content) == [type |-> "prompt", level |-> "", content |-> content, n |-> 0]
\* the n-th fragment of the model text
ResponseEvent(fragment) ==
  [type |-> "response", level |-> "", content |-> "", n |-> fragment]

\* onStream?.(event), for a list of events in order
Emit(evs, obs, list) == IF obs THEN evs \o list ELSE evs

\* { ...a, ...b }
Spread(a, b) ==
  [k \in (DOMAIN a) \cup (DOMAIN b) |-> IF k \in DOMAIN b THEN b[k] ELSE a[k]]

(***************************************************************************)
(* extractWithOllama.  The function runs synchronously between awaits, so  *)
(* each action below is the code from one await to the next.  The          *)
(* operators with primed variables are the stretches several actions       *)
(* share.                                                                  *)
(***************************************************************************)
\* The model text the adapter holds: which text it is, the number of
\* fragments the daemon cut it into, and the fragments that were appended.
Reassembled(text, frags, got) == [text |-> text, frags |-> frags, got |-> got]
Whole(text) == Reassembled(text, 1, <<1>>)
Complete(fr) == fr.got = [i \in 1..fr.frags |-> i]
NoText == [form |-> "", payload |-> JUndef]
NoResponse == Reassembled(NoText, 0, <<>>)
NoStream == [text |-> NoText, frags |-> 0, line |-> 0, mid |-> FALSE, got |-> <<>>]
NoRequest ==
  [prompt |-> [kind |-> "", text |-> <<>>], images |-> <<>>, stream |-> FALSE,
   format |-> ""]

\* No call of ocrImages, none of pdfToImages
NoOcr ==
  [pc |-> "idle", images |-> <<>>, onProgress |-> FALSE, onStream |-> FALSE,
   recognizeCalls |-> 0,
   results |-> <<>>, settled |-> <<>>, log |-> <<>>, text |-> <<>>]
NoPdf ==
  [pc |-> "idle", doc |-> <<>>, opens |-> TRUE, failsAt |-> 0, onStream |-> FALSE,
   pages |-> <<>>, log |-> <<>>, returned |-> <<>>, isNull |-> FALSE]

\* (a variant that cuts the text down to its braces before the first parse)
ParseBracesFirst(fr) ==
  IF ~(fr.got = [i \in 1..fr.frags |-> i]) THEN Invalid
  ELSE IF fr.text.payload.t = "obj" THEN Valid(fr.text.payload)
  ELSE IF fr.text.payload.t = "arr" /\ Len(fr.text.payload.v) = 1
          /\ fr.text.payload.v[1].t = "obj"
       THEN Valid(fr.text.payload.v[1])
  ELSE IF fr.text.form = "json" THEN Valid(fr.text.payload)
  ELSE Invalid

\* JSON.parse(fullResponse.trim()), then the first '{' to last '}' fallback
\* (lines 202-220): the fallback finds a JSON object that other text
\* surrounds.  A text that lost a fragment is no JSON either way.
ParseModelText(fr) ==
  IF ~Complete(fr) THEN Invalid
  ELSE IF fr.text.form = "json" THEN Valid(fr.text.payload)
  ELSE IF fr.text.form \in {"fenced", "embedded"} /\ fr.text.payload.t = "obj"
       THEN Valid(fr.text.payload)
  ELSE Invalid

\* const result = { id, filename, extractedAt, ...validated }
OllamaRecord(validated, id, time) ==
  JObj(Spread([id |-> JUuid(id), filename |-> JStr(Basename(filePath)),
               extractedAt |-> JDate(time)], validated.v))

\* A variant that starts without an image and waits for the rasterizer's
EmptyImage(b64) == [src |-> "file", data |-> <<>>]

\* let imageBase64 = base64
OriginalImage(b64) == [src |-> "file", data |-> b64]

\* A variant that keeps the OCR text an earlier invocation recognized
CarriedOcrText(earlier) == earlier

\* let ocrText = '': every invocation starts without OCR text
StartingOcrText(earlier) == <<>>

\* Lines 31-80 up to the first await of an invocation extractWithOllama(filePath,
\* base64, config, rc, obs).
EnterOllama(rc, obs, by, evs) ==
  /\ adapterCalls' = Append(adapterCalls,
       [adapter |-> "ollama", by |-> by, filePath |-> filePath, base64 |-> base64',
        config |-> config, retryCount |-> rc, onStream |-> obs])
  /\ retryCount' = rc
  /\ onStream' = obs
  /\ imageBase64' = OriginalImage(base64')
  /\ ocrText' = StartingOcrText(ocrText)
  /\ stream' = NoStream
  /\ fullResponse' = NoResponse
  /\ parsed' = JUndef
  /\ IF getMimeType(filePath) = "application/pdf"
     THEN /\ pc' = "rasterizing"
          /\ pages' = 0
          /\ events' = Emit(evs, obs, <<LogEvent("info", "Converting PDF to images")>>)
     ELSE /\ pc' = "ocr-ing"
          /\ pages' = 1
          /\ events' = evs

\* Variants of the retry test, for checking that the claims depend on it:
\* one that allows a second retry, one that retries whatever was thrown.
ShouldRetryTwice(rc, kind) == rc <= 1 /\ kind = "ZodError"
ShouldRetryAnyError(rc, kind) == rc = 0

\* if (retryCount === 0 && error instanceof z.ZodError)
ShouldRetry(rc, kind) == rc = 0 /\ kind = "ZodError"

\* A variant that hands the caller's observer on to the retry
RetryObserverKept(obs) == obs

\* The observer the retry is invoked with: undefined
RetryObserver(obs) == FALSE

\* The catch block (lines 249-260) with err thrown inside the try: the retry
\* is started, or err is thrown on.  Nothing above extractWithOllama catches,
\* so extractDocument rejects with err.  fr and json are the locals
\* fullResponse and parsed at the throw.
Catch(err, evs, fr, json) ==
  IF ShouldRetry(retryCount, err.kind)
  THEN /\ attemptErrors' = Append(attemptErrors, err.kind)
       /\ base64' = base64
       /\ EnterOllama(retryCount + 1, RetryObserver(onStream), "extractWithOllama",
            Emit(evs, onStream,
                 <<LogEvent("warn", "Validation failed, retrying extraction")>>))
       /\ UNCHANGED <<result, error, genId, genTime>>
  ELSE /\ pc' = "failed"
       /\ error' = err
       /\ attemptErrors' = Append(attemptErrors, err.kind)
       /\ events' = Emit(evs, onStream, <<LogEvent("error", "Extraction failed")>>)
       /\ fullResponse' = fr
       /\ parsed' = json
       /\ UNCHANGED <<result, genId, genTime, retryCount, onStream, pages,
                      imageBase64, ocrText, adapterCalls, stream, base64>>

\* Lines 82-153: the prompts are built and the request is sent.
SendRequest(image, ocr, evs) ==
  LET userPrompt ==
        IF ocr # <<>> THEN [kind |-> "ocr", text |-> ocr]
        ELSE [kind |-> IF IsImageMime(getMimeType(filePath)) THEN "image" ELSE "document",
              text |-> <<>>]
      shouldStream == onStream
  IN  /\ pc' = "awaiting-response"
      /\ request' = [prompt |-> userPrompt, images |-> <<image>>,
                     stream |-> shouldStream, format |-> "json"]
      /\ fetchCalls' = fetchCalls + 1
      /\ events' = Emit(evs, onStream,
           <<LogEvent("info", "Starting extraction with ollama")>>
           \o (IF ocr # <<>> THEN <<LogEvent("debug", "OCR text preview")>> ELSE <<>>)
           \o <<PromptEvent("System/User prompt"),
                LogEvent("debug", "Sending request to Ollama")>>)

\* await pdfToImages(filePath, onStream) returns: n pages, or null when the
\* renderer failed or the document has no page.
PdfToImages ==
  /\ pc = "rasterizing"
  /\ \E n \in 0..MaxPages, threw \in BOOLEAN :
       LET converted ==
             IF threw THEN <<LogEvent("error", "PDF conversion failed")>>
             ELSE <<LogEvent("debug", "PDF converted: n pages")>>
           count == IF threw THEN 0 ELSE n
       IN  /\ pages' = count
           /\ IF count > 0
              THEN /\ imageBase64' = [src |-> "page", data |-> <<1>>]
                   /\ pc' = "ocr-ing"
                   /\ events' = Emit(events, onStream, converted \o
                        <<LogEvent("debug", "PDF converted"),
                          LogEvent("info", "Running OCR on n page(s)"),
                          PromptEvent("Running OCR on n page(s)...")>>)
                   /\ UNCHANGED <<request, fetchCalls>>
              ELSE /\ SendRequest(imageBase64, ocrText,
                                  Emit(events, onStream, converted))
                   /\ UNCHANGED imageBase64
  /\ UNCHANGED <<filePath, fileBytes, fileReadable, config, callerOnStream, base64,
                 retryCount, onStream, ocrText, stream, fullResponse, parsed,
                 adapterCalls, geminiCalls, payloads, attemptErrors, genId, genTime,
                 result, error, input, output, ocrCall, pdfCall,
                 host, cliVars, revalidated, mimeCall, repo>>

\* A variant that keeps every page, whether its recognition gave text or not
EveryPage(outcome, n) == [i \in 1..n |-> i]

\* results.filter(r => r.text.trim()).map(marker + text): the pages, in page
\* order, whose recognition gave text.
RECURSIVE PagesWithText(_, _)
PagesWithText(outcome, n) ==
  IF n = 0 THEN <<>>
  ELSE PagesWithText(outcome, n - 1)
         \o (IF outcome[n] = "text" THEN <<n>> ELSE <<>>)

\* What the observer hears of the recognitions, page after page.
RECURSIVE OcrEvents(_, _)
OcrEvents(outcome, n) ==
  IF n = 0 THEN <<>>
  ELSE OcrEvents(outcome, n - 1)
         \o (IF outcome[n] = "throws"
             THEN <<LogEvent("error", "OCR failed for page")>>
             ELSE <<PromptEvent("OCR progress"),
                    LogEvent("debug", "OCR completed for page")>>)

\* await ocrImages(...) returns; every page was recognized, gave blank text,
\* or its recognition threw.
OcrImages ==
  /\ pc = "ocr-ing"
  /\ \E outcome \in [1..pages -> {"text", "blank", "throws"}] :
       LET text == PagesWithText(outcome, pages)
       IN  /\ ocrText' = text
           /\ SendRequest(imageBase64, text,
                Emit(events, onStream,
                     OcrEvents(outcome, pages) \o <<LogEvent("info", "OCR complete")>>))
  /\ UNCHANGED <<filePath, fileBytes, fileReadable, config, callerOnStream, base64,
                 retryCount, onStream, pages, imageBase64, stream, fullResponse,
                 parsed, adapterCalls, geminiCalls, payloads, attemptErrors, genId,
                 genTime, result, error, input, output, ocrCall, pdfCall,
                 host, cliVars, revalidated, mimeCall, repo>>

\* Lines 195-260: the reassembled text is parsed and validated; the attempt
\* returns a record, throws, or (catch, line 251) starts the retry.
Finish(fr, evs0) ==
  LET evs1 == Emit(evs0, onStream, <<LogEvent("debug", "Model response received")>>)
      json == ParseModelText(fr)
  IN  IF ~json.ok
      THEN /\ Catch(Err("ParseError", "Failed to parse JSON response"),
                    Emit(evs1, onStream, <<LogEvent("error", "JSON parse failed")>>),
                    fr, parsed)
           /\ UNCHANGED payloads
      ELSE
        /\ payloads' = Append(payloads, json.v)
        /\ IF json.v.t \in {"null", "undefined"}
           THEN \* (parsed as Record<string, unknown>).type of null
                Catch(Err("TypeError", "Cannot read properties of null"), evs1,
                      fr, json.v)
           ELSE
             LET evs2 == Emit(evs1, onStream, <<LogEvent("debug", "Raw parsed JSON")>>)
                 validated == DocumentDataSchema(json.v)
             IN  IF validated.ok
                 THEN /\ \E stamp \in Stamps :
                           /\ genId' = stamp.id
                           /\ genTime' = stamp.time
                           /\ result' = OllamaRecord(validated.v, stamp.id, stamp.time)
                      /\ pc' = "complete"
                      /\ events' = Emit(evs2, onStream,
                           <<LogEvent("info", "Extraction successful")>>)
                      /\ fullResponse' = fr
                      /\ parsed' = json.v
                      /\ UNCHANGED <<error, attemptErrors, retryCount, onStream,
                                     pages, imageBase64, ocrText, adapterCalls,
                                     stream, base64>>
                 ELSE Catch(Err("ZodError", "validation"), evs2, fr, json.v)

\* fetch() rejects: the request never got an answer.
FetchFails ==
  /\ pc = "awaiting-response"
  /\ Catch(Err("NetworkError", "fetch failed"), events, fullResponse, parsed)
  /\ UNCHANGED <<filePath, fileBytes, fileReadable, config, callerOnStream, request,
                 fetchCalls, geminiCalls, payloads, input, output, ocrCall, pdfCall,
                 host, cliVars, revalidated, mimeCall, repo>>

\* !response.ok (lines 155-162)
FetchNotOk ==
  /\ pc = "awaiting-response"
  /\ \E status \in {"404", "500"} :
       Catch(Err("ApiError", status),
             Emit(events, onStream, <<LogEvent("error", "Ollama API error")>>),
             fullResponse, parsed)
  /\ UNCHANGED <<filePath, fileBytes, fileReadable, config, callerOnStream, request,
                 fetchCalls, geminiCalls, payloads, input, output, ocrCall, pdfCall,
                 host, cliVars, revalidated, mimeCall, repo>>

\* response.ok without streaming: await response.json() gives the whole text
\* (lines 190-193), and the attempt runs to its end.
FetchOkWhole ==
  /\ pc = "awaiting-response"
  /\ ~request.stream
  /\ \E text \in ModelTexts : Finish(Whole(text), events)
  /\ UNCHANGED <<filePath, fileBytes, fileReadable, config, callerOnStream,
                 request, fetchCalls, geminiCalls, input, output, ocrCall, pdfCall,
                 host, cliVars, revalidated, mimeCall, repo>>

\* response.ok with streaming: the body is newline-delimited JSON, one line
\* per fragment of the text and a last line carrying done. `line` and `mid`
\* say where the next chunk starts: at the start of a line or inside it.
FetchOkStream ==
  /\ pc = "awaiting-response"
  /\ request.stream
  /\ \E text \in ModelTexts, frags \in 1..MaxFragments :
       stream' = [text |-> text, frags |-> frags, line |-> 1, mid |-> FALSE, got |-> <<>>]
  /\ pc' = "streaming"
  /\ UNCHANGED <<filePath, fileBytes, fileReadable, config, callerOnStream, base64,
                 retryCount, onStream, pages, imageBase64, ocrText, request,
                 fullResponse, parsed, adapterCalls, fetchCalls, geminiCalls,
                 payloads, attemptErrors, events, genId, genTime, result, error,
                 input, output, ocrCall, pdfCall,
                 host, cliVars, revalidated, mimeCall, repo>>

\* The fragment lines first..last, as far as they exist
FragmentLines(first, last, frags) ==
  LET hi == IF last > frags THEN frags ELSE last
  IN  IF first > hi THEN <<>> ELSE [i \in 1..(hi - first + 1) |-> first + i - 1]

ResponseEvents(lines) == [i \in 1..Len(lines) |-> ResponseEvent(lines[i])]

\* One turn of the read loop (lines 171-188): a chunk that ends at the start
\* of line l2 (mid2 false) or inside it.  Only lines that lie wholly in the
\* chunk parse; each gives its fragment to fullResponse and to onStream.
ReadChunk ==
  /\ pc = "streaming"
  /\ \E l2 \in stream.line..(stream.frags + 2), mid2 \in BOOLEAN :
       /\ l2 > stream.line \/ (~stream.mid /\ mid2)
       /\ mid2 => l2 <= stream.frags + 1
       /\ LET first == IF stream.mid THEN stream.line + 1 ELSE stream.line
              lines == FragmentLines(first, l2 - 1, stream.frags)
          IN  /\ stream' = [stream EXCEPT !.line = l2, !.mid = mid2,
                                          !.got = stream.got \o lines]
              /\ events' = Emit(events, onStream, ResponseEvents(lines))
  /\ UNCHANGED <<pc, filePath, fileBytes, fileReadable, config, callerOnStream, base64,
                 retryCount, onStream, pages, imageBase64, ocrText, request,
                 fullResponse, parsed, adapterCalls, fetchCalls, geminiCalls,
                 payloads, attemptErrors, genId, genTime, result, error,
                 input, output, ocrCall, pdfCall,
                 host, cliVars, revalidated, mimeCall, repo>>

\* reader.read() reports done: the loop ends and the attempt runs to its end.
ReadDone ==
  /\ pc = "streaming"
  /\ stream.line = stream.frags + 2
  /\ Finish(Reassembled(stream.text, stream.frags, stream.got), events)
  /\ UNCHANGED <<filePath, fileBytes, fileReadable, config, callerOnStream,
                 request, fetchCalls, geminiCalls, input, output, ocrCall, pdfCall,
                 host, cliVars, revalidated, mimeCall, repo>>

\* reader.read() rejects: the connection broke while streaming.
ReadFails ==
  /\ pc = "streaming"
  /\ Catch(Err("NetworkError", "stream read failed"), events, fullResponse, parsed)
  /\ UNCHANGED <<filePath, fileBytes, fileReadable, config, callerOnStream, request,
                 fetchCalls, geminiCalls, payloads, input, output, ocrCall, pdfCall,
                 host, cliVars, revalidated, mimeCall, repo>>

(***************************************************************************)
(* extractWithGemini                                                       *)
(***************************************************************************)
\* JSON.parse(text.replace(/```json\n?/g, '').replace(/```\n?/g, ''))
ParseGeminiText(text) ==
  IF text.form \in {"json", "fenced"} THEN Valid(text.payload) ELSE Invalid

\* { id, filename, extractedAt, ...extracted }: the own keys of the parsed
\* value are copied over the three stamped ones.  A value that is not an
\* object has no key of the record's.
GeminiRecord(extracted, id, time) ==
  JObj(Spread([id |-> JUuid(id), filename |-> JStr(Basename(filePath)),
               extractedAt |-> JDate(time)],
              IF extracted.t = "obj" THEN extracted.v ELSE <<>>))

\* await model.generateContent(...) rejects
GenerateContentFails ==
  /\ pc = "awaiting-gemini"
  /\ pc' = "failed"
  /\ error' = Err("NetworkError", "generateContent failed")
  /\ UNCHANGED <<filePath, fileBytes, fileReadable, config, callerOnStream, base64,
                 retryCount, onStream, pages, imageBase64, ocrText, request, stream,
                 fullResponse, parsed, adapterCalls, fetchCalls, geminiCalls,
                 payloads, attemptErrors, events, genId, genTime, result,
                 input, output, ocrCall, pdfCall,
                 host, cliVars, revalidated, mimeCall, repo>>

\* await model.generateContent(...) returns (lines 41-49)
GenerateContentReturns ==
  /\ pc = "awaiting-gemini"
  /\ \E text \in ModelTexts :
       LET extracted == ParseGeminiText(text)
       IN  IF ~extracted.ok
           THEN /\ pc' = "failed"
                /\ error' = Err("SyntaxError", "JSON.parse")
                /\ UNCHANGED <<parsed, payloads, genId, genTime, result>>
           ELSE /\ parsed' = extracted.v
                /\ payloads' = Append(payloads, extracted.v)
                /\ \E stamp \in Stamps :
                     /\ genId' = stamp.id
                     /\ genTime' = stamp.time
                     /\ result' = GeminiRecord(extracted.v, stamp.id, stamp.time)
                /\ pc' = "complete"
                /\ UNCHANGED error
  /\ UNCHANGED <<filePath, fileBytes, fileReadable, config, callerOnStream, base64,
                 retryCount, onStream, pages, imageBase64, ocrText, request, stream,
                 fullResponse, adapterCalls, fetchCalls, geminiCalls,
                 attemptErrors, events, input, output, ocrCall, pdfCall,
                 host, cliVars, revalidated, mimeCall, repo>>

(***************************************************************************)
(* extractDocument                                                         *)
(***************************************************************************)
\* readFileSync(filePath) throws
ReadFileFails ==
  /\ pc = "idle"
  /\ ~fileReadable
  /\ pc' = "failed"
  /\ error' = Err("ReadError", "ENOENT")
  /\ UNCHANGED <<filePath, fileBytes, fileReadable, config, callerOnStream, base64,
                 retryCount, onStream, pages, imageBase64, ocrText, request, stream,
                 fullResponse, parsed, adapterCalls, fetchCalls, geminiCalls,
                 payloads, attemptErrors, events, genId, genTime, result,
                 input, output, ocrCall, pdfCall,
                 host, cliVars, revalidated, mimeCall, repo>>

\* A variant that falls back to the cloud adapter for an unknown provider
RouteWithDefault(provider) ==
  IF provider = "ollama" THEN "ollama" ELSE "gemini"

\* A variant without the final throw: an unknown provider is handed to no
\* adapter and the call neither returns a record nor throws
RouteWithoutThrow(provider) ==
  IF provider \in {"gemini", "ollama"} THEN provider ELSE "none"

\* The provider adapter extractDocument hands the call to: "" for none.
Route(provider) ==
  IF provider = "gemini" THEN "gemini"
  ELSE IF provider = "ollama" THEN "ollama"
  ELSE ""

\* A variant that passes the bytes on without encoding them
EncodeNothing(bytes) == bytes

\* fileBuffer.toString('base64')
Encode(bytes) == Base64(bytes)

\* A variant of the key check that lets every configuration through
KeyAlwaysPresent(cfg) == FALSE

\* !config.geminiApiKey
KeyMissing(cfg) == cfg.geminiApiKey = ""

\* aiProvider = 'gemini': extractWithGemini(filePath, base64, config) runs to
\* the missing-key check or to its await of generateContent.
CallGemini ==
  /\ pc = "idle"
  /\ fileReadable
  /\ Route(config.aiProvider) = "gemini"
  /\ base64' = Encode(fileBytes)
  /\ adapterCalls' = Append(adapterCalls,
       [adapter |-> "gemini", by |-> "extractDocument", filePath |-> filePath,
        base64 |-> base64', config |-> config, retryCount |-> 0, onStream |-> FALSE])
  /\ IF KeyMissing(config)
     THEN /\ pc' = "failed"
          /\ error' = Err("ConfigError", "Gemini API key required")
          /\ UNCHANGED geminiCalls
     ELSE /\ pc' = "awaiting-gemini"
          /\ geminiCalls' = geminiCalls + 1
          /\ UNCHANGED error
  /\ UNCHANGED <<filePath, fileBytes, fileReadable, config, callerOnStream,
                 retryCount, onStream, pages, imageBase64, ocrText, request, stream,
                 fullResponse, parsed, fetchCalls, payloads, attemptErrors, events,
                 genId, genTime, result, input, output, ocrCall, pdfCall,
                 host, cliVars, revalidated, mimeCall, repo>>

\* aiProvider = 'ollama': extractWithOllama(filePath, base64, config, 0,
\* options?.onStream) runs to its first await.
CallOllama ==
  /\ pc = "idle"
  /\ fileReadable
  /\ Route(config.aiProvider) = "ollama"
  /\ base64' = Encode(fileBytes)
  /\ EnterOllama(0, callerOnStream, "extractDocument", events)
  /\ UNCHANGED <<filePath, fileBytes, fileReadable, config, callerOnStream,
                 request, fetchCalls, geminiCalls,
                 payloads, attemptErrors, genId, genTime, result, error,
                 input, output, ocrCall, pdfCall,
                 host, cliVars, revalidated, mimeCall, repo>>

\* any other aiProvider: throw new Error(`Provider ${config.aiProvider} not yet implemented`)
RejectProvider ==
  /\ pc = "idle"
  /\ fileReadable
  /\ Route(config.aiProvider) = ""
  /\ base64' = Encode(fileBytes)
  /\ pc' = "failed"
  /\ error' = Err("NotImplemented", config.aiProvider)
  /\ UNCHANGED <<filePath, fileBytes, fileReadable, config, callerOnStream,
                 retryCount, onStream, pages, imageBase64, ocrText, request, stream,
                 fullResponse, parsed, adapterCalls, fetchCalls, geminiCalls,
                 payloads, attemptErrors, events, genId, genTime, result,
                 input, output, ocrCall, pdfCall,
                 host, cliVars, revalidated, mimeCall, repo>>

\* The configurations a caller passes: geminiApiKey "" stands for a key that
\* is not set.
\* getMimeType has not been called; the documents table is empty.
NoMime == [pc |-> "idle", dir |-> <<>>, name |-> <<>>, kind |-> ""]
NoRepo ==
  [rows |-> {}, saves |-> 0,
   last |-> [id |-> "", path |-> "", data |-> <<>>, outcome |-> ""]]
NotRevalidated == [state |-> "pending", v |-> JUndef]

\* useOllama before its first effect: useState({ status: 'checking' }),
\* isReady false, no service call made.  `pc` is the service call the hook
\* awaits, `caller` the function that called checkAndPullModel, `calls` the
\* service calls made so far, `daemon` and `model` what the service last
\* answered about the daemon and about the model.
NoOllama ==
  [status |-> "checking", message |-> "", isReady |-> FALSE, provider |-> "ollama",
   isInteractive |-> FALSE, pc |-> "unmounted", caller |-> "", calls |-> <<>>,
   daemon |-> "", model |-> ""]

\* useExtraction before its first effect: state idle, result null, empty
\* refs, lastUpdateRef 0 and no throttle timer (timer is the time it is due,
\* 0 for none).  `now` is Date.now() in milliseconds after some instant,
\* `arrived` the response fragments the service has delivered, each named by
\* the number of the chunk that brought it.
NoExtraction ==
  [status |-> "idle", message |-> "", result |-> FALSE, dryRun |-> FALSE,
   pc |-> "idle", extractCalls |-> 0, saveCalls |-> 0, onComplete |-> 0,
   onError |-> 0, promptContent |-> 0, chunks |-> 0, arrived |-> <<>>,
   responseRef |-> <<>>,
   responseContent |-> <<>>, lastUpdateRef |-> 0, updateTimerRef |-> 0,
   now |-> 1000, ticks |-> 0]

\* No tools/call request; geminiApiKey is process.env.GEMINI_API_KEY
NoMcp ==
  [pc |-> "idle", name |-> "", arguments |-> FALSE, filepath |-> "",
   provider |-> "", geminiApiKey |-> "", config |-> [aiProvider |-> "",
   geminiApiKey |-> ""], content |-> <<>>, isError |-> FALSE, thrown |-> ""]

NoCli == ollama = NoOllama /\ extraction = NoExtraction /\ mcp = NoMcp

Configs ==
  { [aiProvider |-> "gemini", geminiApiKey |-> "test-key"],
    [aiProvider |-> "gemini", geminiApiKey |-> ""],
    [aiProvider |-> "ollama", geminiApiKey |-> ""],
    [aiProvider |-> "openai", geminiApiKey |-> ""],
    [aiProvider |-> "openai", geminiApiKey |-> "test-key"] }

Init ==
  /\ pc = "idle"
  /\ filePath \in SamplePaths
  /\ fileBytes \in SampleContents
  /\ fileReadable \in BOOLEAN
  /\ config \in Configs
  /\ callerOnStream \in BOOLEAN
  /\ base64 = <<>> /\ retryCount = 0 /\ onStream = FALSE
  /\ pages = 0 /\ imageBase64 = [src |-> "file", data |-> <<>>] /\ ocrText = <<>>
  /\ request = NoRequest /\ stream = NoStream /\ fullResponse = NoResponse
  /\ parsed = JUndef
  /\ adapterCalls = <<>> /\ fetchCalls = 0 /\ geminiCalls = 0
  /\ payloads = <<>> /\ attemptErrors = <<>> /\ events = <<>>
  /\ genId = 0 /\ genTime = 0
  /\ result = JUndef /\ error = NoError
  /\ input = JUndef /\ output = [state |-> "pending", v |-> JUndef]
  /\ ocrCall = NoOcr /\ pdfCall = NoPdf
  /\ host = UtcHost /\ revalidated = NotRevalidated
  /\ mimeCall = NoMime /\ repo = NoRepo /\ NoCli

Next ==
  \/ ReadFileFails
  \/ CallGemini
  \/ CallOllama
  \/ RejectProvider
  \/ GenerateContentFails
  \/ GenerateContentReturns
  \/ PdfToImages
  \/ OcrImages
  \/ FetchFails
  \/ FetchNotOk
  \/ FetchOkWhole
  \/ FetchOkStream
  \/ ReadChunk
  \/ ReadDone
  \/ ReadFails

Spec == Init /\ [][Next]_vars

\* The call under a host that keeps running it: the code between two awaits
\* is run by the event loop as soon as the awaited operation has settled,
\* and every external operation (the read of the file, the rasterizer, the
\* OCR worker, fetch, the reads of the response stream, generateContent)
\* settles: it returns or it fails.  One step is enabled at a time save for
\* the alternative outcomes of the one operation that is awaited.  Whether
\* the call ends does not hang on the bytes of the file: one content is
\* followed.
InitLive == Init /\ fileBytes = <<77, 97>>
SpecLive == InitLive /\ [][Next]_vars /\ WF_vars(Next)

(***************************************************************************)
(* The schema on its own: DocumentDataSchema.parse applied to one payload. *)
(***************************************************************************)
Pending == [state |-> "pending", v |-> JUndef]

\* schema.parse(x): the transformed value, or a thrown ZodError.
Parse(x) ==
  LET r == DocumentDataSchema(x)
  IN  IF r.ok THEN [state |-> "returned", v |-> r.v]
      ELSE [state |-> "threw", v |-> JStr("ZodError")]

TypeValues ==
  {JUndef, JNull, JNum(100), JStr("memo"), JStr("Invoice")}
    \cup {JStr(t) : t \in DocumentTypes}
VendorValues == {JUndef, JNull, JStr("Acme"), JStr(""), JNum(700)}
AmountValues ==
  {JUndef, JNull, JNum(2240), JNum(-500), JStr("22.40"), JStr("abc"), JBool(TRUE)}
DateValues ==
  {JUndef, JNull, JStr("2025-12-07"), JStr("not-a-date"), JNum(2025),
   JStr("3/5/24"), JStr("13/45/24"), JStr("")}
ItemValues ==
  { JNull, JStr("Coffee"), JObj(<<>>),
    JObj([description |-> JStr("Coffee"), total |-> JNum(700)]),
    JObj([name |-> JStr("Tea"), price |-> JStr("22.40")]),
    JObj([description |-> JNull]),
    JObj([description |-> JStr("Milk"), total |-> JStr("abc")]),
    JObj([description |-> JStr("Bread"), total |-> JNull]) }
ItemsValues ==
  {JUndef, JNull, JStr("none"), JObj(<<>>), JArr(<<>>)}
    \cup {JArr(<<i>>) : i \in ItemValues}

ObjectPayloads ==
  { JObj([type |-> t, vendor |-> v, amount |-> a, date |-> d, items |-> i]) :
      t \in TypeValues, v \in VendorValues, a \in AmountValues,
      d \in {JUndef, JStr("2025-12-07")}, i \in {JUndef} }
  \cup
  { JObj([type |-> t, date |-> d, items |-> i]) :
      t \in {JUndef, JStr("receipt")}, d \in DateValues, i \in ItemsValues }
NonObjectPayloads ==
  {JNull, JNum(4200), JStr("text"), JBool(TRUE), JArr(<<>>),
   JArr(<<JObj([type |-> JStr("invoice")])>>)}
\* Payloads that spell a field by its aliases, as the models do.
VendorAliasPayloads ==
  { JObj([vendor |-> v, store_name |-> s, merchant |-> m, business_name |-> b]) :
      v \in {JUndef, JNull, JStr("Acme"), JStr("")},
      s \in {JUndef, JNull, JStr("Corner Store")},
      m \in {JUndef, JNull, JStr("Visa Merchant")},
      b \in {JUndef, JNull, JStr("Acme Holdings")} }
AmountAliasPayloads ==
  { JObj([amount |-> a, total |-> t, total_amount |-> ta]) :
      a \in {JUndef, JNull, JNum(-500), JNum(0)},
      t \in {JUndef, JNull, JNum(2240)},
      ta \in {JUndef, JNull, JNum(100)} }
\* Payloads in which a field is either null or given.
NullablePayloads ==
  { JObj([vendor |-> v, amount |-> a, date |-> d, items |-> i, rawText |-> r]) :
      v \in {JNull, JStr("Acme")}, a \in {JNull, JNum(2240)},
      d \in {JNull, JStr("2025-12-07")},
      i \in {JNull, JArr(<<JObj([description |-> JStr("Coffee")])>>)},
      r \in {JNull, JStr("TOTAL 22.40")} }
\* Line items: how they are described, what they cost, how many there are.
ItemPayloads ==
  { JObj([items |-> JArr(<<i>>)]) : i \in
      { JObj([description |-> d, name |-> n, item |-> i]) :
          d \in {JUndef, JStr("Coffee"), JStr("")},
          n \in {JUndef, JStr("Tea")}, i \in {JUndef, JStr("Scone")} }
      \cup
      { JObj([description |-> JStr("Coffee"), total |-> t, price |-> p,
              amount |-> a]) :
          t \in {JUndef, JNull, JNum(700), JNum(0)},
          p \in {JUndef, JNull, JNum(300)},
          a \in {JUndef, JNull, JNum(100)} }
      \cup
      { JObj([description |-> JStr("Coffee"), quantity |-> q, qty |-> q2,
              unitPrice |-> u, unit_price |-> u2]) :
          q \in {JUndef, JNull, JNum(200)}, q2 \in {JUndef, JNull, JNum(300)},
          u \in {JUndef, JNull, JNum(150)}, u2 \in {JUndef, JNum(175)} } }

SchemaInputs ==
  ObjectPayloads \cup NonObjectPayloads \cup VendorAliasPayloads
    \cup AmountAliasPayloads \cup NullablePayloads \cup ItemPayloads

\* No extraction is running.
Idle ==
  /\ pc = "idle"
  /\ filePath = [parts |-> <<"">>, ext |-> ""] /\ fileBytes = <<>>
  /\ fileReadable = FALSE
  /\ config = [aiProvider |-> "", geminiApiKey |-> ""]
  /\ callerOnStream = FALSE
  /\ base64 = <<>> /\ retryCount = 0 /\ onStream = FALSE
  /\ pages = 0 /\ imageBase64 = [src |-> "file", data |-> <<>>] /\ ocrText = <<>>
  /\ request = NoRequest /\ stream = NoStream /\ fullResponse = NoResponse
  /\ parsed = JUndef
  /\ adapterCalls = <<>> /\ fetchCalls = 0 /\ geminiCalls = 0
  /\ payloads = <<>> /\ attemptErrors = <<>> /\ events = <<>>
  /\ genId = 0 /\ genTime = 0
  /\ result = JUndef /\ error = NoError

InitSchema ==
  /\ Idle
  /\ ocrCall = NoOcr /\ pdfCall = NoPdf
  /\ host \in Hosts /\ revalidated = NotRevalidated
  /\ mimeCall = NoMime /\ repo = NoRepo /\ NoCli
  /\ input \in SchemaInputs
  /\ output = Pending

Validate ==
  /\ output.state = "pending"
  /\ output' = Parse(input)
  /\ UNCHANGED <<input, extractionVars, ocrCall, pdfCall,
                 host, cliVars, revalidated, mimeCall, repo>>

\* The record that parse returned is handed to DocumentDataSchema.parse again.
Revalidate ==
  /\ output.state = "returned"
  /\ revalidated.state = "pending"
  /\ revalidated' = Parse(output.v)
  /\ UNCHANGED <<input, output, extractionVars, ocrCall, pdfCall,
                 host, cliVars, mimeCall, repo>>

NextSchema ==
  \/ Validate
  \/ Revalidate

SpecSchema == InitSchema /\ [][NextSchema]_vars

(***************************************************************************)
(* ocrImages on its own: one call with a list of images.  Each image's     *)
(* recognition is an async function started by images.map; they settle in  *)
(* any order, and Promise.all joins them.                                  *)
(***************************************************************************)
MaxImages == 3

\* What Tesseract.recognize gives for an image: a text, or a rejection
Rejects == "<rejects>"
RecognizedTexts == {"Page A", " Page B \n", "   ", ""}
Recognitions == RecognizedTexts \cup {Rejects}

\* text.trim()
Trim(s) ==
  CASE s = " Page B \n" -> "Page B"
    [] s = "   " -> ""
    [] OTHER -> s

NotSettled == [page |-> 0, text |-> ""]

\* A variant without the try/catch around the recognition of a page
RethrowsPageFailure == FALSE

\* try { ... } catch (error) { ...; return { page: pageNum, text: '' } }
CatchesPageFailure == TRUE

\* The value the async function of page pageNum resolves with
PageResult(pageNum, recognized) ==
  [page |-> pageNum, text |-> IF recognized = Rejects THEN "" ELSE recognized]

\* A variant that collects the results as the recognitions settle
CompletionOrder(results, settled) ==
  [i \in 1..Len(settled) |-> results[settled[i]]]

\* await Promise.all(images.map(...)): the results by index of the image
PromiseAll(results, settled) == results

\* A variant that numbers the sections after the empty pages are dropped
MarkedRenumbered(results) ==
  LET kept == SelectSeq(results, LAMBDA r : Trim(r.text) # "")
  IN  [i \in 1..Len(kept) |-> [page |-> i, text |-> Trim(kept[i].text)]]

\* results.filter(r => r.text.trim()).map(r => `--- Page ${r.page} ---\n${r.text.trim()}`)
\* .join('\n\n'): the text as the list of its sections; '' has none.
Marked(results) ==
  LET kept == SelectSeq(results, LAMBDA r : Trim(r.text) # "")
  IN  [i \in 1..Len(kept) |-> [page |-> kept[i].page, text |-> Trim(kept[i].text)]]

PageLog(level, message, pageNum) ==
  [type |-> "log", level |-> level, content |-> message, n |-> pageNum]

\* ocrImages(images, onProgress, onStream) is called and runs to its await:
\* it returns '' for no image, else every recognition is started.
OcrCall ==
  /\ ocrCall.pc = "called"
  /\ IF ocrCall.images = <<>>
     THEN ocrCall' = [ocrCall EXCEPT !.pc = "returned", !.text = <<>>]
     ELSE ocrCall' = [ocrCall EXCEPT
            !.pc = "recognizing",
            !.recognizeCalls = Len(ocrCall.images),
            !.results = [i \in 1..Len(ocrCall.images) |-> NotSettled]]
  /\ UNCHANGED <<input, output, extractionVars, pdfCall, host, cliVars, revalidated, mimeCall, repo>>

\* The recognition of one page settles (lines 33-53): it resolves, after its
\* logger reported progress, or it rejects.
RecognitionSettles ==
  /\ ocrCall.pc = "recognizing"
  /\ \E p \in 1..Len(ocrCall.images) :
       /\ ocrCall.results[p] = NotSettled
       /\ LET recognized == ocrCall.images[p]
              progress == IF ocrCall.onProgress
                          THEN <<[type |-> "progress", level |-> "",
                                  content |-> "recognizing text", n |-> p]>>
                          ELSE <<>>
          IN  IF recognized # Rejects
              THEN ocrCall' = [ocrCall EXCEPT
                     !.results[p] = PageResult(p, recognized),
                     !.settled = Append(@, p),
                     !.log = @ \o progress \o
                        Emit(<<>>, ocrCall.onStream,
                             <<PageLog("debug", "OCR completed for page", p)>>)]
              ELSE IF CatchesPageFailure
              THEN ocrCall' = [ocrCall EXCEPT
                     !.results[p] = PageResult(p, recognized),
                     !.settled = Append(@, p),
                     !.log = @ \o
                        Emit(<<>>, ocrCall.onStream,
                             <<PageLog("error", "OCR failed for page", p)>>)]
              ELSE \* Promise.all rejects, the outer catch returns ''
                   ocrCall' = [ocrCall EXCEPT
                     !.pc = "returned",
                     !.settled = Append(@, p),
                     !.text = <<>>,
                     !.log = @ \o
                        Emit(<<>>, ocrCall.onStream,
                             <<LogEvent("error", "OCR batch failed")>>)]
  /\ UNCHANGED <<input, output, extractionVars, pdfCall, host, cliVars, revalidated, mimeCall, repo>>

\* Every recognition has settled: Promise.all resolves, the sections are
\* put together and returned (lines 57-67).
OcrJoin ==
  /\ ocrCall.pc = "recognizing"
  /\ \A p \in 1..Len(ocrCall.images) : ocrCall.results[p] # NotSettled
  /\ ocrCall' = [ocrCall EXCEPT
       !.pc = "returned",
       !.text = Marked(PromiseAll(ocrCall.results, ocrCall.settled)),
       !.log = @ \o Emit(<<>>, ocrCall.onStream, <<LogEvent("info", "OCR complete")>>)]
  /\ UNCHANGED <<input, output, extractionVars, pdfCall, host, cliVars, revalidated, mimeCall, repo>>

RECURSIVE ImageLists(_)
ImageLists(n) ==
  IF n = 0 THEN {<<>>}
  ELSE LET shorter == ImageLists(n - 1)
       IN  shorter \cup {Append(l, r) : l \in {m \in shorter : Len(m) = n - 1},
                                        r \in Recognitions}

InitOcr ==
  /\ Idle
  /\ input = JUndef /\ output = Pending
  /\ pdfCall = NoPdf
  /\ host = UtcHost /\ revalidated = NotRevalidated
  /\ mimeCall = NoMime /\ repo = NoRepo /\ NoCli
  /\ \E images \in ImageLists(MaxImages), obs \in BOOLEAN, prog \in BOOLEAN :
       ocrCall = [NoOcr EXCEPT !.pc = "called", !.images = images,
                               !.onStream = obs, !.onProgress = prog]

NextOcr ==
  \/ OcrCall
  \/ RecognitionSettles
  \/ OcrJoin

SpecOcr == InitOcr /\ [][NextOcr]_vars

(***************************************************************************)
(* pdfToImages on its own: one call on a document.  The renderer opens the *)
(* document or rejects, and then yields the pages one by one; the          *)
(* iteration may fail at any page.                                         *)
(***************************************************************************)
MaxPdfPages == 3

\* A variant that returns the list even when it is empty
PagesEvenIfNone(list) == [isNull |-> FALSE, pages |-> list]

\* return pages.length > 0 ? pages : null
PagesOrNull(list) == [isNull |-> list = <<>>, pages |-> list]

\* The catch block: the failure is logged and null is returned
PdfConversionFailed ==
  [pdfCall EXCEPT
     !.pc = "returned", !.isNull = TRUE, !.returned = <<>>,
     !.log = @ \o Emit(<<>>, pdfCall.onStream,
                       <<LogEvent("error", "PDF conversion failed")>>)]

\* pdfToImages(filePath, onStream) is called and awaits pdf(filePath, { scale: 3 })
PdfCall ==
  /\ pdfCall.pc = "called"
  /\ pdfCall' = [pdfCall EXCEPT !.pc = "opening"]
  /\ UNCHANGED <<input, output, extractionVars, ocrCall, host, cliVars, revalidated, mimeCall, repo>>

\* The renderer settles: the document is open, or the call is over with null
PdfOpens ==
  /\ pdfCall.pc = "opening"
  /\ pdfCall' = IF pdfCall.opens
                THEN [pdfCall EXCEPT !.pc = "iterating"]
                ELSE PdfConversionFailed
  /\ UNCHANGED <<input, output, extractionVars, ocrCall, host, cliVars, revalidated, mimeCall, repo>>

\* One turn of for await (const page of document): the iterator rejects,
\* yields the next page, or is done and the function returns.
PdfNextPage ==
  /\ pdfCall.pc = "iterating"
  /\ LET k == Len(pdfCall.pages) + 1
     IN  pdfCall' =
           IF pdfCall.failsAt = k THEN PdfConversionFailed
           ELSE IF k <= Len(pdfCall.doc)
           THEN [pdfCall EXCEPT !.pages = Append(@, pdfCall.doc[k])]
           ELSE LET value == PagesOrNull(pdfCall.pages)
                IN  [pdfCall EXCEPT
                       !.pc = "returned",
                       !.isNull = value.isNull,
                       !.returned = value.pages,
                       !.log = @ \o Emit(<<>>, pdfCall.onStream,
                                  <<LogEvent("debug", "PDF converted: n pages")>>)]
  /\ UNCHANGED <<input, output, extractionVars, ocrCall, host, cliVars, revalidated, mimeCall, repo>>

\* The documents: the images of their pages, in page order
Documents ==
  { [i \in 1..n |-> base + i] : n \in 0..MaxPdfPages, base \in {10, 20} }

InitPdf ==
  /\ Idle
  /\ input = JUndef /\ output = Pending
  /\ ocrCall = NoOcr
  /\ host = UtcHost /\ revalidated = NotRevalidated
  /\ mimeCall = NoMime /\ repo = NoRepo /\ NoCli
  /\ \E doc \in Documents, opens \in BOOLEAN, obs \in BOOLEAN :
       \E failsAt \in 0..(Len(doc) + 1) :
         pdfCall = [NoPdf EXCEPT !.pc = "called", !.doc = doc, !.opens = opens,
                                 !.failsAt = failsAt, !.onStream = obs]

NextPdf ==
  \/ PdfCall
  \/ PdfOpens
  \/ PdfNextPage

SpecPdf == InitPdf /\ [][NextPdf]_vars

(***************************************************************************)
(* getMimeType on its own: one call with one path.  A file name is the     *)
(* list of its segments: the stem, then each further piece from a '.' on   *)
(* ("my.file.PDF" is <<"my", ".file", ".PDF">>); a stem may begin with a   *)
(* dot itself (the hidden file ".png").                                    *)
(***************************************************************************)
FileNames ==
  { <<stem>> \o middle \o last :
      stem \in {"invoice", "INVOICE", ".png"},
      middle \in {<<>>, <<".backup">>, <<".pdf">>, <<".file", ".PNG">>},
      last \in {<<>>} \cup
        { <<l>> : l \in
            { ".pdf", ".PDF", ".Pdf", ".png", ".PNG", ".Png", ".jpg", ".JPG",
              ".jpeg", ".JPEG", ".JpEg", ".gif", ".GIF", ".webp", ".WEBP",
              ".WebP", ".txt", ".TXT", ".doc", "." } } }
Directories == { <<>>, <<"", "path", "to">>, <<"", "scans.2024">> }

\* path.extname: from the last '.' of the last part of the path to its end;
\* empty when that part has no '.' or only the one it begins with.
Extname(name) == IF Len(name) <= 1 THEN "" ELSE name[Len(name)]

InitMime ==
  /\ Idle
  /\ input = JUndef /\ output = Pending
  /\ ocrCall = NoOcr /\ pdfCall = NoPdf
  /\ host = UtcHost /\ revalidated = NotRevalidated /\ repo = NoRepo /\ NoCli
  /\ \E dir \in Directories, name \in FileNames :
       mimeCall = [pc |-> "called", dir |-> dir, name |-> name, kind |-> ""]

\* getMimeType(filePath) returns
Classify ==
  /\ mimeCall.pc = "called"
  /\ mimeCall' = [mimeCall EXCEPT
       !.pc = "returned",
       !.kind = getMimeType([parts |-> mimeCall.dir \o mimeCall.name,
                             ext |-> Extname(mimeCall.name)])]
  /\ UNCHANGED <<input, output, extractionVars, ocrCall, pdfCall, host, cliVars,
                 revalidated, repo>>

NextMime == Classify

SpecMime == InitMime /\ [][NextMime]_vars

(***************************************************************************)
(* The document repository (packages/storage): the rows of the documents   *)
(* table and the saveDocument calls made on it.  The table has a primary   *)
(* key on id and a unique index on path_hash.                              *)
(***************************************************************************)
MaxSaves == 3

\* The records handed to saveDocument: DocumentData with its id
StoredDocs ==
  { [id |-> i, amount |-> a] : i \in {"123", "456"}, a \in {100, 200} }
\* The paths they are saved under
StoredPaths == {"/tmp/invoice.pdf", "./test.pdf", "test.pdf"}

\* path.resolve(filePath), the working directory being /cwd
Resolve(path) ==
  CASE path = "./test.pdf" -> "/cwd/test.pdf"
    [] path = "test.pdf" -> "/cwd/test.pdf"
    [] OTHER -> path

\* createHash('sha256').update(resolve(filePath)).digest('hex'): two paths
\* have the same hash exactly when they resolve to the same absolute path.
computePathHash(path) == <<"sha256", Resolve(path)>>

\* path.basename(filePath)
StoredName(path) ==
  CASE path = "/tmp/invoice.pdf" -> "invoice.pdf"
    [] OTHER -> "test.pdf"

\* newDoc (lines 33-40); the call's ordinal stands for new Date()
NewDocument(docData, path, now) ==
  [id |-> docData.id, pathHash |-> computePathHash(path),
   filename |-> StoredName(path), status |-> "pending", data |-> docData,
   createdAt |-> now]

\* (a variant without the conflict clause: every save inserts)
InsertAlways(rows, newDoc) == rows \cup {newDoc}

\* (a variant that replaces on any conflict, as INSERT OR REPLACE would)
ReplaceOnConflict(rows, newDoc) ==
  {r \in rows : r.pathHash # newDoc.pathHash /\ r.id # newDoc.id} \cup {newDoc}

\* insert(documents).values(newDoc).onConflictDoUpdate({ target: pathHash,
\* set: { id, data, status: 'pending' } }) on the rows of the table
Upsert(rows, newDoc) ==
  LET stored == {r \in rows : r.pathHash = newDoc.pathHash}
  IN  IF stored = {} THEN rows \cup {newDoc}
      ELSE (rows \ stored) \cup
             { [r EXCEPT !.id = newDoc.id, !.data = newDoc.data,
                         !.status = "pending"] : r \in stored }

\* The primary key of the table: no two rows have one id.  A statement that
\* would leave two is aborted with SQLITE_CONSTRAINT and changes nothing.
PrimaryKeyHolds(rows) == \A r1, r2 \in rows : r1.id = r2.id => r1 = r2

\* await repo.saveDocument(docData, filePath)
SaveDocument ==
  /\ repo.saves < MaxSaves
  /\ \E docData \in StoredDocs, path \in StoredPaths :
       LET newDoc == NewDocument(docData, path, repo.saves + 1)
           after == Upsert(repo.rows, newDoc)
           ok == PrimaryKeyHolds(after)
       IN  repo' = [rows |-> IF ok THEN after ELSE repo.rows,
                    saves |-> repo.saves + 1,
                    last |-> [id |-> docData.id, path |-> path, data |-> docData,
                              outcome |-> IF ok THEN "resolved" ELSE "rejected"]]
  /\ UNCHANGED <<input, output, extractionVars, ocrCall, pdfCall, host, cliVars,
                 revalidated, mimeCall>>

\* The status column takes 'pending', 'indexed' or 'failed': whoever indexes
\* the stored documents moves a row out of 'pending'.
StatusChanges ==
  /\ \E r \in repo.rows, s \in {"indexed", "failed"} :
       /\ r.status = "pending"
       /\ repo' = [repo EXCEPT !.rows = (@ \ {r}) \cup {[r EXCEPT !.status = s]}]
  /\ UNCHANGED <<input, output, extractionVars, ocrCall, pdfCall, host, cliVars,
                 revalidated, mimeCall>>

InitStore ==
  /\ Idle
  /\ input = JUndef /\ output = Pending
  /\ ocrCall = NoOcr /\ pdfCall = NoPdf
  /\ host = UtcHost /\ revalidated = NotRevalidated /\ mimeCall = NoMime
  /\ repo = NoRepo /\ NoCli

NextStore ==
  \/ SaveDocument
  \/ StatusChanges

SpecStore == InitStore /\ [][NextStore]_vars

(***************************************************************************)
(* The CLI's extract command (packages/cli): ExtractAppInner renders       *)
(* useOllama and useExtraction, and useExtraction's shouldStart is         *)
(* useOllama's isReady.  A hook's state is the state of its last render;   *)
(* every action is the code from one await, timer or key press to the      *)
(* next.  The services are the default ones of the contexts: the checks    *)
(* of services/ollama.ts catch their own errors and answer false, while    *)
(* installOllama and pullModel reject.                                     *)
(***************************************************************************)
MaxChunks == 3
MaxTicks == 3
THROTTLE_MS == 250

\* The hook's other fields stay as they are
OllamaIs(o) ==
  /\ ollama' = o
  /\ UNCHANGED <<input, output, extractionVars, ocrCall, pdfCall, host, revalidated,
                 mimeCall, repo, extraction, mcp>>

ExtractionIs(e) ==
  /\ extraction' = e
  /\ UNCHANGED <<input, output, extractionVars, ocrCall, pdfCall, host, revalidated,
                 mimeCall, repo, ollama, mcp>>

InitCli ==
  /\ Idle
  /\ input = JUndef /\ output = Pending
  /\ ocrCall = NoOcr /\ pdfCall = NoPdf
  /\ host = UtcHost /\ revalidated = NotRevalidated /\ mimeCall = NoMime
  /\ repo = NoRepo /\ mcp = NoMcp
  /\ \E provider \in {"ollama", "gemini", "openai"}, isInteractive \in BOOLEAN :
       ollama = [NoOllama EXCEPT !.provider = provider,
                                 !.isInteractive = isInteractive,
                                 !.pc = "mounted"]
  /\ \E dryRun \in BOOLEAN : extraction = [NoExtraction EXCEPT !.dryRun = dryRun]

\* The service call `name` is made and awaited
Awaiting(o, name) == [o EXCEPT !.pc = name, !.calls = Append(@, name)]

\* checkAndPullModel (useOllama.ts:24-26), up to its first await
checkAndPullModel(o, caller) ==
  [Awaiting(o, "checkModelExists") EXCEPT !.status = "checking-model",
                                          !.caller = caller]

\* setState({ status: 'ready', model }); setIsReady(true)
Ready(o) == [o EXCEPT !.status = "ready", !.isReady = TRUE, !.pc = "done"]

\* setState({ status: 'error', message })
Failed(o, message) == [o EXCEPT !.status = "error", !.message = message, !.pc = "done"]

\* The effect of lines 100-130 runs checkOllama() up to its first await.
CheckOllama ==
  /\ ollama.pc = "mounted"
  /\ OllamaIs(IF ollama.provider # "ollama" THEN Ready(ollama)
              ELSE Awaiting([ollama EXCEPT !.status = "checking"],
                            "checkOllamaRunning"))

\* await checkOllamaRunning() answers (lines 112-119)
RunningAnswers ==
  /\ ollama.pc = "checkOllamaRunning"
  /\ \E isRunning \in BOOLEAN :
       OllamaIs(IF isRunning
                THEN checkAndPullModel([ollama EXCEPT !.daemon = "running"],
                                       "checkOllama")
                ELSE Awaiting(ollama, "checkOllamaInstalled"))

\* await checkOllamaInstalled() answers (lines 119-127)
InstalledAnswers ==
  /\ ollama.pc = "checkOllamaInstalled"
  /\ \E isInstalled \in BOOLEAN :
       OllamaIs([ollama EXCEPT
                   !.status = IF isInstalled THEN "prompt-start" ELSE "prompt-install",
                   !.pc = "prompt"])

\* await checkModelExists(model) answers (lines 26-36)
ModelAnswers ==
  /\ ollama.pc = "checkModelExists"
  /\ \E modelExists \in BOOLEAN :
       OllamaIs(IF modelExists THEN Ready([ollama EXCEPT !.model = "present"])
                ELSE Awaiting([ollama EXCEPT !.status = "pulling-model"], "pullModel"))

\* A rejection inside checkAndPullModel is caught by the try of
\* handleStartConfirm (lines 69-81); checkOllama has no try, and the effect
\* calls checkOllama() without a catch (line 129).
Catches(caller) == caller = "handleStartConfirm"

\* await pullModel(model, onProgress) settles (lines 30-36).  A rejection
\* that nothing catches leaves the state as it is.
PullSettles ==
  /\ ollama.pc = "pullModel"
  /\ \E outcome \in {"", "Failed to pull model: Not Found", "No response body"} :
       OllamaIs(IF outcome = "" THEN Ready([ollama EXCEPT !.model = "pulled"])
                ELSE IF Catches(ollama.caller) THEN Failed(ollama, outcome)
                ELSE [ollama EXCEPT !.pc = "unhandled rejection"])

\* handleInstallConfirm(confirmed), lines 40-48
handleInstallConfirm(o, confirmed) ==
  IF ~confirmed THEN [o EXCEPT !.status = "cancelled", !.pc = "done"]
  ELSE Awaiting([o EXCEPT !.status = "installing"], "installOllama")

\* handleStartConfirm(confirmed), lines 61-71: startOllama() spawns the
\* daemon, then the wait begins
handleStartConfirm(o, confirmed) ==
  IF ~confirmed THEN [o EXCEPT !.status = "cancelled", !.pc = "done"]
  ELSE Awaiting(Awaiting([o EXCEPT !.status = "starting"], "startOllama"),
                "waitForOllama")

\* The handler of the prompt that is showing
Confirm(o, confirmed) ==
  IF o.status = "prompt-install" THEN handleInstallConfirm(o, confirmed)
  ELSE handleStartConfirm(o, confirmed)

\* ConfirmInput's useInput: the user presses y, n or return.  Without raw
\* mode the component only shows the message.
UserAnswers ==
  /\ ollama.pc = "prompt"
  /\ ollama.isInteractive
  /\ \E confirmed \in BOOLEAN : OllamaIs(Confirm(ollama, confirmed))

\* The 500 ms timer of the auto-confirm effect (lines 85-97) fires.
AutoConfirm ==
  /\ ollama.pc = "prompt"
  /\ ~ollama.isInteractive
  /\ OllamaIs(Confirm(ollama, TRUE))

\* await installOllama(onProgress) settles (lines 49-56)
InstallSettles ==
  /\ ollama.pc = "installOllama"
  /\ \E outcome \in {"", "Installation failed (may need sudo)."} :
       OllamaIs(IF outcome = ""
                THEN [ollama EXCEPT !.status = "prompt-start", !.pc = "prompt"]
                ELSE Failed(ollama, outcome))

\* await waitForOllama() answers (lines 71-76)
WaitSettles ==
  /\ ollama.pc = "waitForOllama"
  /\ \E started \in BOOLEAN :
       OllamaIs(IF started
                THEN checkAndPullModel([ollama EXCEPT !.daemon = "running"],
                                       "handleStartConfirm")
                ELSE Failed(ollama, "Ollama failed to start within 10 seconds"))

\* A variant that does not wait for the provider
StartAtOnce == TRUE

\* ExtractAppInner: shouldStart: ollama.isReady
ShouldStart == ollama.isReady

\* useExtraction's effect (lines 109-113) calls runExtraction, which runs up
\* to await extractDocument (lines 43-60).
StartExtraction ==
  /\ ShouldStart
  /\ extraction.status = "idle"
  /\ ExtractionIs([extraction EXCEPT
       !.status = "extracting", !.promptContent = 0, !.responseRef = <<>>,
       !.responseContent = <<>>, !.pc = "extractDocument",
       !.extractCalls = @ + 1])

\* A variant that leaves the display as it is
NotShown(e) == e

\* setResponseContent(responseRef.current)
Shown(e) == [e EXCEPT !.responseContent = e.responseRef]

\* The onStream callback (lines 62-86) gets a chunk: a prompt is shown as it
\* is, a response fragment is appended to responseRef and shown at once or
\* by the throttle timer, any other chunk is ignored.
OnStream ==
  /\ extraction.pc = "extractDocument"
  /\ extraction.chunks < MaxChunks
  /\ \E type \in {"log", "prompt", "response"} :
       LET e == [extraction EXCEPT !.chunks = @ + 1]
           r == [e EXCEPT !.arrived = Append(@, e.chunks),
                          !.responseRef = Append(@, e.chunks)]
       IN  ExtractionIs(
             IF type = "log" THEN e
             ELSE IF type = "prompt" THEN [e EXCEPT !.promptContent = e.chunks]
             ELSE IF r.now - r.lastUpdateRef >= THROTTLE_MS
                  THEN Shown([r EXCEPT !.lastUpdateRef = r.now])
             ELSE IF r.updateTimerRef = 0
                  THEN [r EXCEPT !.updateTimerRef = r.now + THROTTLE_MS]
             ELSE r)

\* The throttle timer's callback (lines 72-76) runs, at its time or later.
TimerFires ==
  /\ extraction.updateTimerRef # 0
  /\ extraction.now >= extraction.updateTimerRef
  /\ ExtractionIs(Shown([extraction EXCEPT
       !.updateTimerRef = 0, !.lastUpdateRef = extraction.now]))

\* Time passes while the extraction runs or a timer is pending.
Tick ==
  /\ extraction.pc = "extractDocument" \/ extraction.updateTimerRef # 0
  /\ extraction.ticks < MaxTicks
  /\ \E elapsed \in {100, 250} :
       ExtractionIs([extraction EXCEPT !.now = @ + elapsed, !.ticks = @ + 1])

\* setState({ status: 'complete', ... }); onComplete()
Completed(e) ==
  [e EXCEPT !.status = "complete", !.onComplete = @ + 1, !.pc = "returned"]

\* A variant that puts a failed run back to idle
Retried(e, message) ==
  [e EXCEPT !.status = "idle", !.message = message, !.onError = @ + 1,
            !.pc = "idle"]

\* catch (error): setState({ status: 'error', message }); onError(err)
Errored(e, message) ==
  [e EXCEPT !.status = "error", !.message = message, !.onError = @ + 1,
            !.pc = "returned"]

\* A variant that saves a dry run too
SaveAlways(dryRun) == TRUE

\* if (!dryRun)
SaveWanted(dryRun) == ~dryRun

\* await extractDocument(...) settles (lines 60-99): the timer is cleared,
\* the whole text shown, and the record saved unless this is a dry run.
ExtractSettles ==
  /\ extraction.pc = "extractDocument"
  /\ \E outcome \in {"", "Gemini API key required", "Failed to parse JSON response"} :
       LET e == [Shown([extraction EXCEPT !.updateTimerRef = 0])
                   EXCEPT !.result = TRUE]
       IN  ExtractionIs(
             IF outcome # "" THEN Errored(extraction, outcome)
             ELSE IF SaveWanted(e.dryRun)
                  THEN [e EXCEPT !.status = "saving", !.pc = "saveDocument",
                                 !.saveCalls = @ + 1]
             ELSE Completed(e))

\* await saveDocument(extractedData, absolutePath) settles (lines 92-106)
SaveSettles ==
  /\ extraction.pc = "saveDocument"
  /\ \E outcome \in {"", "UNIQUE constraint failed: documents.id"} :
       ExtractionIs(IF outcome = "" THEN Completed(extraction)
                    ELSE Errored(extraction, outcome))

NextCli ==
  \/ CheckOllama
  \/ RunningAnswers
  \/ InstalledAnswers
  \/ ModelAnswers
  \/ PullSettles
  \/ UserAnswers
  \/ AutoConfirm
  \/ InstallSettles
  \/ WaitSettles
  \/ StartExtraction
  \/ OnStream
  \/ TimerFires
  \/ Tick
  \/ ExtractSettles
  \/ SaveSettles

SpecCli == InitCli /\ [][NextCli]_vars

\* Every service call settles, every timer fires, the user answers a prompt.
SpecCliLive == InitCli /\ [][NextCli]_vars /\ WF_vars(NextCli)

(***************************************************************************)
(* The MCP server's CallToolRequestSchema handler (packages/cli/src/mcp/   *)
(* server.ts), followed through one tools/call request.  The protocol      *)
(* makes params.arguments optional; the handler does not check it against  *)
(* the tool's input schema.  A missing filepath or provider is "".         *)
(***************************************************************************)
InitMcp ==
  /\ Idle
  /\ input = JUndef /\ output = Pending
  /\ ocrCall = NoOcr /\ pdfCall = NoPdf
  /\ host = UtcHost /\ revalidated = NotRevalidated /\ mimeCall = NoMime
  /\ repo = NoRepo /\ ollama = NoOllama /\ extraction = NoExtraction
  /\ \E name \in {"extract_document", "search_documents", "delete_document"},
        arguments \in BOOLEAN,
        filepath \in {"", "/docs/invoice.pdf", "/docs/missing.pdf"},
        provider \in {"", "gemini", "openai", "ollama"},
        geminiApiKey \in {"", "test-key"} :
       /\ ~arguments => filepath = "" /\ provider = ""
       /\ mcp = [NoMcp EXCEPT !.pc = "called", !.name = name,
                              !.arguments = arguments, !.filepath = filepath,
                              !.provider = provider,
                              !.geminiApiKey = geminiApiKey]

McpIs(m) ==
  /\ mcp' = m
  /\ UNCHANGED <<input, output, extractionVars, ocrCall, pdfCall, host, revalidated,
                 mimeCall, repo, ollama, extraction>>

\* The handler returns a tool result
ToolResult(m, text, isError) ==
  [m EXCEPT !.pc = "returned", !.content = text, !.isError = isError]

\* The handler throws; the SDK answers the request with a JSON-RPC error
Throws(m, message) == [m EXCEPT !.pc = "thrown", !.thrown = message]

\* A variant whose handler lets the error of extractDocument through
Rethrown(m, message) == Throws(m, message)

\* catch (error): the tool result { content: [`Error: ${message}`], isError: true }
Caught(m, message) == ToolResult(m, <<"Error: ", message>>, TRUE)

\* The handler runs up to await extractDocument (lines 71-85), or to its end
\* for the other tools (lines 108-119).  Destructuring params.arguments
\* (line 73) throws when the request has none.
CallTool ==
  /\ mcp.pc = "called"
  /\ McpIs(IF mcp.name = "extract_document"
           THEN IF ~mcp.arguments
                THEN Throws(mcp, "Cannot destructure property 'filepath'")
                ELSE [mcp EXCEPT !.pc = "extractDocument",
                        !.config =
                          [aiProvider |-> IF mcp.provider = "" THEN "gemini"
                                          ELSE mcp.provider,
                           geminiApiKey |-> mcp.geminiApiKey]]
           ELSE IF mcp.name = "search_documents"
                THEN ToolResult(mcp, <<"Search functionality not yet implemented">>,
                                FALSE)
           ELSE Throws(mcp, "Unknown tool"))

\* What extractDocument(filepath, config) can do for the handler's config:
\* "" stands for a returned record, anything else is the error's message.
ExtractionOutcomes(filepath, cfg) ==
  IF filepath # "/docs/invoice.pdf" THEN {"ENOENT: no such file or directory"}
  ELSE IF cfg.aiProvider = "gemini"
       THEN IF cfg.geminiApiKey = "" THEN {"Gemini API key required"}
            ELSE {"", "generateContent failed"}
  ELSE IF cfg.aiProvider = "ollama"
       THEN {"", "fetch failed", "Ollama API error: 500",
             "Failed to parse JSON response", "validation"}
  ELSE {"Provider openai not yet implemented"}

\* await extractDocument settles (lines 85-105)
ExtractDocumentSettles ==
  /\ mcp.pc = "extractDocument"
  /\ \E outcome \in ExtractionOutcomes(mcp.filepath, mcp.config) :
       McpIs(IF outcome = "" THEN ToolResult(mcp, <<"JSON.stringify(result)">>, FALSE)
             ELSE Caught(mcp, outcome))

NextMcp ==
  \/ CallTool
  \/ ExtractDocumentSettles

SpecMcp == InitMcp /\ [][NextMcp]_vars

(***************************************************************************)
(* Properties                                                              *)
(***************************************************************************)
IsOllama == config.aiProvider = "ollama"
IsGemini == config.aiProvider = "gemini"
Finished == pc \in {"complete", "failed"}

\* The invocations of each adapter
OllamaCalls == SelectSeq(adapterCalls, LAMBDA c : c.adapter = "ollama")
GeminiCalls == SelectSeq(adapterCalls, LAMBDA c : c.adapter = "gemini")

FourTypes == {JStr(t) : t \in DocumentTypes}

\* C1: a schema-validation failure of the first local-daemon attempt causes
\* exactly one further attempt, and a validation failure of that one is
\* thrown to the caller; so at most two POSTs to /api/generate are made in
\* one call, and two only when the first attempt ended in a validation
\* failure.
C1_RetryExactlyOnce ==
  /\ fetchCalls <= 2
  /\ Len(attemptErrors) <= 2
  /\ Len(OllamaCalls) <= 2
  /\ fetchCalls = 2 => (Len(attemptErrors) >= 1 /\ attemptErrors[1] = "ZodError")
  /\ (IsOllama /\ Len(attemptErrors) >= 1 /\ attemptErrors[1] = "ZodError") =>
       /\ Len(OllamaCalls) = 2
       /\ OllamaCalls[2].retryCount = 1
       /\ Finished => fetchCalls = 2
  /\ (Len(attemptErrors) = 2 /\ attemptErrors[2] = "ZodError") =>
       (pc = "failed" /\ error.kind = "ZodError")

C1_Witness ==
  /\ pc = "failed"
  /\ attemptErrors = <<"ZodError", "ZodError">>
  /\ fetchCalls = 2

\* A payload whose only defect is its type: an object with a type that is
\* present and not one of the four, and with nothing else the schema rejects.
InvalidTypeOnly(p) ==
  /\ p.t = "obj"
  /\ DOMAIN p.v \subseteq {"type", "vendor", "amount"}
  /\ Get(p, "type").t # "undefined"
  /\ Get(p, "type") \notin FourTypes
  /\ Get(p, "vendor").t \in {"undefined", "str"}
  /\ Get(p, "amount").t \in {"undefined", "num"}

\* C2 as stated: when the first daemon response has an invalid type and the
\* extraction completes, two outbound calls were made and the record is
\* the one built from the second payload.
C2_InvalidTypeIsRetried ==
  (IsOllama /\ pc = "complete" /\ InvalidTypeOnly(payloads[1])) =>
    /\ fetchCalls = 2
    /\ Len(payloads) = 2
    /\ result = OllamaRecord(DocumentDataSchema(payloads[2]).v, genId, genTime)

\* C2 amended: a first daemon response whose only defect is an invalid type
\* is accepted as it is: one outbound call, no retry, and the record is built
\* from that payload with type other.  Two outbound calls and a record built
\* from the second payload occur only when the first payload failed the
\* schema validation.
C2_InvalidTypeIsCoerced ==
  /\ (IsOllama /\ Len(payloads) >= 1 /\ InvalidTypeOnly(payloads[1])) =>
       /\ pc = "complete"
       /\ fetchCalls = 1
       /\ Len(payloads) = 1
       /\ Len(OllamaCalls) = 1
       /\ Get(result, "type") = JStr("other")
       /\ Get(result, "vendor") = Get(payloads[1], "vendor")
       /\ Get(result, "amount") = Get(payloads[1], "amount")
  /\ (IsOllama /\ pc = "complete" /\ fetchCalls = 2) =>
       /\ Len(payloads) = 2
       /\ attemptErrors = <<"ZodError">>
       /\ result = OllamaRecord(DocumentDataSchema(payloads[2]).v, genId, genTime)

C2_Witness ==
  /\ IsOllama
  /\ pc = "complete"
  /\ payloads = <<JObj([type |-> JStr("memo"), vendor |-> JStr("Acme")])>>
  /\ fetchCalls = 1

\* C3 as stated: in the local-daemon path, whenever extractDocument fails
\* with an error that is not a schema-validation failure (a non-2xx answer,
\* a network failure of the request, model text that is no recoverable
\* JSON), exactly one outbound request has been made.
C3_ExactlyOneRequest ==
  (IsOllama /\ pc = "failed"
     /\ error.kind \in {"ApiError", "NetworkError", "ParseError"}) =>
    fetchCalls = 1

\* C3 amended: in the local-daemon path an attempt that ends in an error
\* other than a schema-validation failure is the last attempt: no request
\* follows it and extractDocument rejects with that error.  The attempt has
\* made one outbound request, so the call has made exactly one when the
\* error arises on the first attempt and two when it arises on the retry
\* that follows a validation failure.
C3_OtherErrorsNotRetried ==
  IsOllama =>
    \A i \in 1..Len(attemptErrors) :
      attemptErrors[i] # "ZodError" =>
        /\ i = Len(attemptErrors)
        /\ pc = "failed"
        /\ error.kind = attemptErrors[i]
        /\ fetchCalls = i
        /\ Len(OllamaCalls) = i

C3_Witness ==
  /\ IsOllama
  /\ pc = "failed"
  /\ attemptErrors = <<"ApiError">>
  /\ error = Err("ApiError", "500")
  /\ fetchCalls = 1

\* What makes DocumentDataSchema.parse throw, read off the payload alone.
NotStringOrNullish(x) == x.t \notin {"undefined", "null", "str"}
NotNumberOrNullish(x) == x.t \notin {"undefined", "null"} /\ ToNumber(x).t = "nan"
BadLineItem(i) ==
  \/ i.t # "obj"
  \/ \E k \in {"description", "name", "item"} :
       Get(i, k).t \notin {"undefined", "str"}
  \/ \E k \in {"quantity", "qty", "unitPrice", "unit_price", "price", "total", "amount"} :
       Get(i, k).t # "undefined" /\ ToNumber(Get(i, k)).t = "nan"
WrongShape(p) ==
  \/ p.t # "obj"
  \/ \E k \in {"vendor", "store_name", "merchant", "business_name", "date", "rawText"} :
       NotStringOrNullish(Get(p, k))
  \/ \E k \in {"amount", "total", "total_amount"} : NotNumberOrNullish(Get(p, k))
  \/ Get(p, "items").t \notin {"undefined", "null", "arr"}
  \/ /\ Get(p, "items").t = "arr"
     /\ \E n \in 1..Len(Get(p, "items").v) : BadLineItem(Get(p, "items").v[n])

C5_TypeIsOneOfFour ==
  output.state = "returned" =>
    /\ Get(output.v, "type") \in FourTypes
    /\ Get(input, "type") \in FourTypes => Get(output.v, "type") = Get(input, "type")
    /\ Get(input, "type") \notin FourTypes => Get(output.v, "type") = JStr("other")

C5_Witness ==
  /\ output.state = "returned"
  /\ Get(input, "type") = JStr("Invoice")
  /\ Get(output.v, "type") = JStr("other")

\* C6: every record extractDocument returns, through either adapter, has a
\* type that is one of invoice, receipt, bank_statement, other.
C6_ReturnedTypeIsOneOfFour ==
  pc = "complete" => Get(result, "type") \in FourTypes

\* C7: the returned record's id, extractedAt and filename are the identifier
\* and timestamp generated in this call and the basename of the source path,
\* whatever keys the model's payload holds.
C7_StampedFieldsAreTheCallsOwn ==
  pc = "complete" =>
    /\ Get(result, "id") = JUuid(genId)
    /\ Get(result, "extractedAt") = JDate(genTime)
    /\ Get(result, "filename") = JStr(Basename(filePath))

\* C8: a cloud extraction without an API key fails with the configuration
\* error before generateContent is called, and nothing is retried: no call
\* to the cloud API, no request to the daemon, one adapter invocation.
C8_MissingKeyFailsBeforeAnyCall ==
  (IsGemini /\ config.geminiApiKey = "") =>
    /\ geminiCalls = 0
    /\ fetchCalls = 0
    /\ Len(adapterCalls) <= 1
    /\ pc \in {"idle", "failed"}
    /\ (pc = "failed" /\ fileReadable) =>
         error = Err("ConfigError", "Gemini API key required")

C8_Witness ==
  /\ IsGemini
  /\ pc = "failed"
  /\ error = Err("ConfigError", "Gemini API key required")
  /\ geminiCalls = 0

\* C9: with an aiProvider that is neither the cloud nor the local-daemon
\* provider, extractDocument fails with 'Provider <value> not yet
\* implemented', naming the value, and invokes no adapter: no default
\* provider stands in.  (The file is read before the provider is looked at,
\* so an unreadable file fails with the read error.)
C9_UnknownProviderIsRejected ==
  config.aiProvider \notin {"gemini", "ollama"} =>
    /\ adapterCalls = <<>>
    /\ geminiCalls = 0
    /\ fetchCalls = 0
    /\ pc \in {"idle", "failed"}
    /\ (pc = "failed" /\ fileReadable) =>
         error = Err("NotImplemented", config.aiProvider)

C9_Witness ==
  /\ pc = "failed"
  /\ error = Err("NotImplemented", "openai")
  /\ adapterCalls = <<>>

\* C10: extractDocument invokes one adapter, chosen by aiProvider: gemini
\* the cloud adapter alone, once, with (filePath, base64 of the file bytes,
\* config); ollama the local-daemon adapter alone, with attempt number 0 and
\* the caller's observer.  Every further invocation is the local-daemon
\* adapter's own retry.
C10_OneAdapterPerCall ==
  LET first == adapterCalls[1]
      routed == fileReadable /\ pc # "idle"
  IN  /\ \A i \in 1..Len(adapterCalls) :
           adapterCalls[i].by = "extractDocument" <=> i = 1
      /\ (IsGemini /\ routed) =>
           /\ adapterCalls =
                <<[adapter |-> "gemini", by |-> "extractDocument",
                   filePath |-> filePath, base64 |-> Base64(fileBytes),
                   config |-> config, retryCount |-> 0, onStream |-> FALSE]>>
           /\ fetchCalls = 0
      /\ (IsOllama /\ routed) =>
           /\ first = [adapter |-> "ollama", by |-> "extractDocument",
                       filePath |-> filePath, base64 |-> Base64(fileBytes),
                       config |-> config, retryCount |-> 0,
                       onStream |-> callerOnStream]
           /\ GeminiCalls = <<>>
           /\ geminiCalls = 0

\* 'Ma' encodes to 'TWE='
C10_Witness ==
  /\ IsOllama
  /\ callerOnStream
  /\ pc = "complete"
  /\ fileBytes = <<77, 97>>
  /\ adapterCalls[1].base64 = <<19, 22, 4, 64>>
  /\ adapterCalls[1].onStream

\* The fragments the observer was handed, in the order it got them
ResponseFragments ==
  LET heard == SelectSeq(events, LAMBDA e : e.type = "response")
  IN  [i \in 1..Len(heard) |-> heard[i].n]

\* C11: when the local-daemon adapter streams and the stream has ended, then
\* however the body was cut into chunks, the observer was handed every
\* response fragment of the stream exactly once and in stream order, and the
\* text that was parsed is the concatenation of all of them.
C11_StreamIsReassembled ==
  (IsOllama /\ onStream /\ Finished /\ fullResponse.frags > 0) =>
    /\ fullResponse.got = [i \in 1..fullResponse.frags |-> i]
    /\ ResponseFragments = [i \in 1..fullResponse.frags |-> i]

\* C12: within one extraction the observer gets no prompt event after its
\* first response event: the OCR progress and the System/User prompt all
\* come before every response fragment.
C12_PromptsBeforeResponses ==
  \A i \in 1..Len(events), j \in 1..Len(events) :
    (i < j /\ events[i].type = "response") => events[j].type # "prompt"

C12_Witness ==
  /\ pc = "complete"
  /\ ResponseFragments = <<1, 2>>
  /\ \E i \in 1..Len(events) : events[i] = PromptEvent("OCR progress")
  /\ \E i \in 1..Len(events) : events[i] = PromptEvent("System/User prompt")

\* C13: the retry of the local-daemon adapter is silent.  It is invoked with
\* no observer and its request carries stream: false, and once the retry is
\* triggered the caller's observer hears nothing more, whether the retry
\* succeeds or fails: the warning that announces the retry stays the last
\* event, and no step of the retry adds an event.
C13_RetryIsSilent ==
  /\ [](retryCount = 1 =>
          /\ ~onStream
          /\ Len(OllamaCalls) = 2 /\ ~OllamaCalls[2].onStream
          /\ pc # "streaming"
          /\ fetchCalls = 2 => ~request.stream
          /\ callerOnStream =>
               events[Len(events)] =
                 LogEvent("warn", "Validation failed, retrying extraction")
          /\ ~callerOnStream => events = <<>>)
  /\ [][retryCount = 1 => events' = events]_vars

C13_Witness ==
  /\ callerOnStream
  /\ retryCount = 1
  /\ pc = "complete"
  /\ fetchCalls = 2
  /\ ResponseFragments # <<>>

\* A request to the daemon is outstanding: sent, its answer not yet at its end
Outstanding == pc \in {"awaiting-response", "streaming"}

\* C14: within one extraction at most one request to the daemon is
\* outstanding.  A request is sent only while none is outstanding, and the
\* second one only by the retry, after the first attempt's answer was
\* received to its end and parsed and its validation failed; the retry is
\* never started while the first request is still outstanding.
C14_AttemptsNeverOverlap ==
  /\ [][fetchCalls' # fetchCalls =>
          /\ fetchCalls' = fetchCalls + 1
          /\ ~Outstanding
          /\ Outstanding'
          /\ fetchCalls = 1 =>
               /\ retryCount = 1
               /\ attemptErrors = <<"ZodError">>
               /\ Len(payloads) = 1
               /\ ~DocumentDataSchema(payloads[1]).ok]_vars
  /\ [][retryCount' # retryCount =>
          /\ Outstanding /\ ~Outstanding'
          /\ retryCount = 0 /\ retryCount' = 1
          /\ fetchCalls' = fetchCalls
          /\ pc = "streaming" => stream.line = stream.frags + 2]_vars
  /\ [](Outstanding => fetchCalls = retryCount + 1)

C14_Witness ==
  /\ Outstanding
  /\ fetchCalls = 2
  /\ retryCount = 1
  /\ callerOnStream
  /\ ~request.stream

\* The pages of the call whose recognition gave text that is not blank
PagesWithContent ==
  {p \in 1..Len(ocrCall.images) :
     ocrCall.images[p] # Rejects /\ Trim(ocrCall.images[p]) # ""}

\* C15: ocrImages starts the recognition of every page before it waits for
\* any and returns only after all have settled; whatever the order in which
\* they settle, the returned text has the sections in input order, one for
\* each page with content, marked with the page's 1-based position.
C15_SectionsInInputOrder ==
  /\ ocrCall.pc = "recognizing" => ocrCall.recognizeCalls = Len(ocrCall.images)
  /\ ocrCall.pc = "returned" =>
       /\ Len(ocrCall.settled) = Len(ocrCall.images)
       /\ \A p \in 1..Len(ocrCall.images) :
            \E i \in 1..Len(ocrCall.settled) : ocrCall.settled[i] = p
       /\ \A i \in 1..Len(ocrCall.text), j \in 1..Len(ocrCall.text) :
            i < j => ocrCall.text[i].page < ocrCall.text[j].page
       /\ {ocrCall.text[i].page : i \in 1..Len(ocrCall.text)} = PagesWithContent
       /\ \A i \in 1..Len(ocrCall.text) :
            ocrCall.text[i].text = Trim(ocrCall.images[ocrCall.text[i].page])

C15_Witness ==
  /\ ocrCall.pc = "returned"
  /\ ocrCall.images = <<"Page A", " Page B \n", "Page A">>
  /\ ocrCall.settled = <<3, 2, 1>>
  /\ ocrCall.text = << [page |-> 1, text |-> "Page A"],
                       [page |-> 2, text |-> "Page B"],
                       [page |-> 3, text |-> "Page A"] >>

\* The sections of the first n of a list of recognized texts
RECURSIVE SectionsUpTo(_, _)
SectionsUpTo(texts, n) ==
  IF n = 0 THEN <<>>
  ELSE SectionsUpTo(texts, n - 1)
         \o (IF Trim(texts[n]) # ""
             THEN <<[page |-> n, text |-> Trim(texts[n])]>>
             ELSE <<>>)

\* C16: a page whose recognition fails is swallowed: ocrImages returns, the
\* failed page has no section, and the returned text is what it would be
\* had the failed page given empty text, the other pages keeping their text
\* and their numbers.
C16_FailedPageIsSwallowed ==
  ocrCall.pc = "returned" =>
    LET asEmpty == [p \in 1..Len(ocrCall.images) |->
                      IF ocrCall.images[p] = Rejects THEN "" ELSE ocrCall.images[p]]
    IN  /\ ocrCall.text = SectionsUpTo(asEmpty, Len(asEmpty))
        /\ \A i \in 1..Len(ocrCall.text) :
             ocrCall.images[ocrCall.text[i].page] # Rejects

\* A batch of two whose page 2 throws returns '--- Page 1 ---' and page 1's text
C16_Witness ==
  /\ ocrCall.pc = "returned"
  /\ ocrCall.images = <<"Page A", Rejects>>
  /\ ocrCall.text = <<[page |-> 1, text |-> "Page A"]>>

\* C17: ocrImages drops every page whose text is empty or only whitespace
\* and does not renumber the others: a section's marker carries the page's
\* position in the input.  No image gives '' without any recognition, and a
\* batch of empty pages gives ''.
C17_EmptyPagesDropped ==
  ocrCall.pc = "returned" =>
    /\ \A i \in 1..Len(ocrCall.text) :
         LET s == ocrCall.text[i]
         IN  /\ s.page \in 1..Len(ocrCall.images)
             /\ s.text # ""
             /\ s.text = Trim(ocrCall.images[s.page])
    /\ \A p \in 1..Len(ocrCall.images) :
         Trim(ocrCall.images[p]) = "" =>
           \A i \in 1..Len(ocrCall.text) : ocrCall.text[i].page # p
    /\ Len(ocrCall.text) = Cardinality(PagesWithContent)
    /\ ocrCall.images = <<>> =>
         (ocrCall.text = <<>> /\ ocrCall.recognizeCalls = 0 /\ ocrCall.settled = <<>>)
    /\ PagesWithContent = {} => ocrCall.text = <<>>

C17_Witness ==
  /\ ocrCall.pc = "returned"
  /\ ocrCall.images = <<"   ", "", " Page B \n">>
  /\ ocrCall.text = <<[page |-> 3, text |-> "Page B"]>>

\* C18: pdfToImages never raises.  It returns null when the renderer
\* rejects, when the iteration over the pages fails, and when the document
\* has no page; otherwise it returns a non-empty list with one image per page
\* in page order.
C18_NullOnAnyFailure ==
  LET failed == ~pdfCall.opens \/ pdfCall.failsAt # 0
  IN  /\ pdfCall.pc = "returned" =>
            /\ pdfCall.isNull <=> (failed \/ pdfCall.doc = <<>>)
            /\ pdfCall.isNull => pdfCall.returned = <<>>
            /\ ~pdfCall.isNull =>
                 /\ pdfCall.returned = pdfCall.doc
                 /\ Len(pdfCall.returned) >= 1
      \* a call past its point of failure is over
      /\ (pdfCall.pc = "iterating" /\ ~pdfCall.opens) => FALSE
      /\ (pdfCall.pc = "iterating" /\ pdfCall.failsAt # 0) =>
            Len(pdfCall.pages) < pdfCall.failsAt

C18_Witness ==
  /\ pdfCall.pc = "returned"
  /\ pdfCall.doc = <<11, 12, 13>>
  /\ ~pdfCall.isNull
  /\ pdfCall.returned = <<11, 12, 13>>

\* C19: in the local-daemon path a failed rasterization is not fatal.  When
\* the input is classified as PDF and pdfToImages has returned null, the
\* request is sent all the same, with the encoded file itself as its single
\* image, no OCR text, and the user prompt in the form that embeds no OCR
\* text; a valid answer of the daemon then gives a record.
C19_RasterizationFailureNotFatal ==
  (IsOllama /\ fileReadable /\ getMimeType(filePath) = "application/pdf"
     /\ pc \notin {"idle", "rasterizing"} /\ pages = 0) =>
    /\ fetchCalls = retryCount + 1
    /\ ocrText = <<>>
    /\ imageBase64 = [src |-> "file", data |-> Base64(fileBytes)]
    /\ request.images = <<[src |-> "file", data |-> Base64(fileBytes)]>>
    /\ request.prompt = [kind |-> "document", text |-> <<>>]
    /\ (pc = "failed") => error.kind \in {"NetworkError", "ApiError", "ParseError",
                                           "TypeError", "ZodError"}
    /\ (pc = "complete") =>
         result = OllamaRecord(DocumentDataSchema(payloads[Len(payloads)]).v,
                               genId, genTime)

C19_Witness ==
  /\ IsOllama
  /\ filePath = [parts |-> <<"", "docs", "invoice.pdf">>, ext |-> ".pdf"]
  /\ pages = 0
  /\ pc = "complete"
  /\ fetchCalls = 1
  /\ fileBytes = <<77, 97>>
  /\ request.images = <<[src |-> "file", data |-> <<19, 22, 4, 64>>]>>
  /\ Get(result, "type") = JStr("invoice")

\* What the claim expects of a string in a numeric field: the number it
\* spells, or an absent field
NormalizedNumber(x) == IF ToNumber(x).t = "num" THEN ToNumber(x) ELSE JUndef

\* C20: a string in a numeric field of a payload that is otherwise well
\* formed never makes the validation raise: in the document's amount and in
\* a line item's total (or its price alias) a numeric-like string becomes the
\* number it spells and any other string an absent field.
C20_NumericStringsNormalize ==
  LET amount == Get(input, "amount")
      items == Get(input, "items")
      item == items.v[1]
      price == Coalesce(Get(item, "total"), Get(item, "price"))
  IN  /\ (output.state # "pending" /\ input.t = "obj" /\ amount.t = "str"
            /\ Get(input, "vendor").t \in {"undefined", "null", "str"}
            /\ Get(input, "date").t \in {"undefined", "null", "str"}
            /\ items.t = "undefined") =>
           /\ output.state = "returned"
           /\ Get(output.v, "amount") = NormalizedNumber(amount)
      /\ (output.state # "pending" /\ input.t = "obj" /\ items.t = "arr"
            /\ Len(items.v) = 1 /\ item.t = "obj" /\ price.t = "str"
            /\ Get(item, "description").t \in {"undefined", "str"}
            /\ Get(item, "name").t \in {"undefined", "str"}
            /\ Get(input, "date").t \in {"undefined", "null", "str"}) =>
           /\ output.state = "returned"
           /\ Get(Get(output.v, "items").v[1], "total") = NormalizedNumber(price)

\* C21: re-validating a normalized record gives the same record: the second
\* parse of what DocumentDataSchema.parse returned does not raise and equals
\* the first result in every field, date and dateRaw included.
C21_RevalidationIsIdentity ==
  revalidated.state # "pending" =>
    /\ revalidated.state = "returned"
    /\ \A k \in {"type", "vendor", "amount", "date", "dateRaw", "items", "rawText"} :
         Get(revalidated.v, k) = Get(output.v, k)

\* The value a field is given under any of its spellings
Spellings(obj, keys) == {Get(obj, k) : k \in keys}
\* A field that is null under some spelling and given under none
OnlyNull(obj, keys) ==
  /\ JNull \in Spellings(obj, keys)
  /\ Spellings(obj, keys) \subseteq {JNull, JUndef}

\* C22: a null optional field normalizes to an absent field, never to a
\* stored null and never to a substituted value: for the document's vendor,
\* amount, date, items and rawText, and for a line item's quantity, unitPrice
\* and total (a line item with total: null has no total, not total 0).
C22_NullIsAbsent ==
  (output.state = "returned" /\ input.t = "obj") =>
    LET doc == output.v
        items == Get(input, "items")
    IN  /\ OnlyNull(input, {"vendor", "store_name", "merchant", "business_name"})
             => Get(doc, "vendor") = JUndef
        /\ OnlyNull(input, {"amount", "total", "total_amount"})
             => Get(doc, "amount") = JUndef
        /\ OnlyNull(input, {"date"})
             => Get(doc, "date") = JUndef /\ Get(doc, "dateRaw") = JUndef
        /\ OnlyNull(input, {"items"}) => Get(doc, "items") = JUndef
        /\ OnlyNull(input, {"rawText"}) => Get(doc, "rawText") = JUndef
        /\ items.t = "arr" =>
             \A i \in 1..Len(items.v) :
               LET given == items.v[i]
                   item == Get(doc, "items").v[i]
               IN  /\ OnlyNull(given, {"quantity", "qty"})
                        => Get(item, "quantity") = JUndef
                   /\ OnlyNull(given, {"unitPrice", "unit_price"})
                        => Get(item, "unitPrice") = JUndef
                   /\ OnlyNull(given, {"total", "price", "amount"})
                        => Get(item, "total") = JUndef

\* The first value of a list of spellings that is neither null nor missing
RECURSIVE FirstGiven(_, _)
FirstGiven(obj, keys) ==
  IF keys = <<>> THEN JUndef
  ELSE IF Get(obj, Head(keys)).t \in {"null", "undefined"}
       THEN FirstGiven(obj, Tail(keys))
       ELSE Get(obj, Head(keys))

\* C23: the normalized vendor is the first of vendor, store_name, merchant,
\* business_name that is neither null nor missing, the normalized amount the
\* first such of amount, total, total_amount; a field with no such spelling
\* is absent, and an amount, negative ones included, is passed on unchanged.
C23_FirstGivenAliasWins ==
  (output.state = "returned" /\ input.t = "obj") =>
    /\ Get(output.v, "vendor") =
         FirstGiven(input, <<"vendor", "store_name", "merchant", "business_name">>)
    /\ LET given == FirstGiven(input, <<"amount", "total", "total_amount">>)
       IN  /\ given = JUndef => Get(output.v, "amount") = JUndef
           /\ given.t = "num" => Get(output.v, "amount") = given
           /\ given # JUndef => Get(output.v, "amount") = ToNumber(given)

\* A payload that gives the vendor and the amount only under later aliases,
\* the earlier spellings being null, has been validated; so has a payload
\* with a negative amount.
C23_Witness ==
  /\ output.state = "returned"
  /\ \/ /\ Get(input, "vendor") = JNull /\ Get(input, "store_name") = JNull
        /\ Get(input, "merchant") = JStr("Visa Merchant")
        /\ Get(output.v, "vendor") = JStr("Visa Merchant")
     \/ /\ Get(input, "amount") = JNull /\ Get(input, "total") = JNum(2240)
        /\ Get(output.v, "amount") = JNum(2240)
     \/ /\ Get(input, "amount") = JNum(-500) /\ Get(input, "total") = JNum(2240)
        /\ Get(output.v, "amount") = JNum(-500)

\* The first of a list of spellings that holds a non-empty string
RECURSIVE FirstNamed(_, _)
FirstNamed(obj, keys) ==
  IF keys = <<>> THEN JStr("Unknown item")
  ELSE IF Get(obj, Head(keys)).t = "str" /\ Get(obj, Head(keys)).v # ""
       THEN Get(obj, Head(keys))
       ELSE FirstNamed(obj, Tail(keys))

\* The line items of a payload that was accepted, and what they became
ItemsGiven == Get(input, "items")
ItemsAccepted ==
  output.state = "returned" /\ input.t = "obj" /\ ItemsGiven.t = "arr"

\* C24: in a line item the total is preferred over price, and price over
\* amount (total and price both given: the normalized total is the given
\* total; only price given: it is price; only amount given: it is amount);
\* the description is the first of description, name, item that is given,
\* and `Unknown item` when none of the three is.
C24_LineItemAliases ==
  ItemsAccepted =>
    \A i \in 1..Len(ItemsGiven.v) :
      LET given == ItemsGiven.v[i]
          item == Get(output.v, "items").v[i]
          total == Get(given, "total")
          price == Get(given, "price")
          amount == Get(given, "amount")
      IN  /\ Get(item, "description") =
               FirstNamed(given, <<"description", "name", "item">>)
          /\ (total.t = "num" /\ price.t = "num") => Get(item, "total") = total
          /\ (total.t = "undefined" /\ price.t \in {"num", "str"})
               => Get(item, "total") = ToNumber(price)
          /\ (total.t = "undefined" /\ price.t = "undefined" /\ amount.t = "num")
               => Get(item, "total") = amount
          /\ (total.t = "undefined" /\ price.t = "undefined"
                /\ amount.t = "undefined") => Get(item, "total") = JUndef

\* Accepted: an item priced under total and price, one under price and
\* amount only, one under amount only, one named by `item` only, and one
\* with no name at all.
C24_Witness ==
  /\ ItemsAccepted /\ Len(ItemsGiven.v) = 1
  /\ LET given == ItemsGiven.v[1]
         item == Get(output.v, "items").v[1]
     IN  \/ /\ Get(given, "total") = JNum(700) /\ Get(given, "price") = JNum(300)
            /\ Get(item, "total") = JNum(700)
         \/ /\ Get(given, "total") = JUndef /\ Get(given, "price") = JNum(300)
            /\ Get(given, "amount") = JNum(100) /\ Get(item, "total") = JNum(300)
         \/ /\ Get(given, "total") = JUndef /\ Get(given, "price") = JUndef
            /\ Get(given, "amount") = JNum(100) /\ Get(item, "total") = JNum(100)
         \/ /\ Get(given, "description") = JUndef /\ Get(given, "name") = JUndef
            /\ Get(given, "item") = JStr("Scone")
            /\ Get(item, "description") = JStr("Scone")
         \/ /\ given = JObj([description |-> JUndef, name |-> JUndef, item |-> JUndef])
            /\ Get(item, "description") = JStr("Unknown item")

\* C25: the date `3/5/24` normalizes to 2024-03-05; a string that neither the
\* generic parse nor the M/D/YY(YY) pattern accepts, such as `not-a-date`,
\* leaves date absent; and whenever a date string is supplied, dateRaw is
\* that string unchanged.
C25_DatesNormalize ==
  LET date == Get(input, "date")
  IN  (output.state = "returned" /\ input.t = "obj" /\ date.t = "str") =>
        /\ Get(output.v, "dateRaw") = date
        /\ date = JStr("3/5/24") => Get(output.v, "date") = JStr("2024-03-05")
        /\ date \in {JStr("not-a-date"), JStr("13/45/24")}
             => Get(output.v, "date") = JUndef

\* The last attempt of the local-daemon adapter got its response text and
\* went on to parse it: the text is what the call ended with.
ParsedAText ==
  /\ Finished /\ IsOllama /\ fullResponse # NoResponse
  /\ error.kind \notin {"NetworkError", "ApiError", "ReadError"}
\* A text that is JSON as it stands; a text that is JSON from its first '{'
\* to its last '}' only
JsonVerbatim(fr) == Complete(fr) /\ fr.text.form = "json"
JsonInBraces(fr) ==
  Complete(fr) /\ fr.text.form \in {"fenced", "embedded"} /\ fr.text.payload.t = "obj"

\* C26: the local-daemon adapter parses the response text as it stands
\* first and takes what that parse gives; only when that fails it parses the
\* text from the first '{' to the last '}'; when that fails too, or there are
\* no braces, the extraction fails with a parse error made of the raw text,
\* and this failure does not start the retry.
C26_JsonRecovery ==
  /\ ParsedAText =>
       /\ JsonVerbatim(fullResponse) =>
            error.kind # "ParseError" /\ parsed = fullResponse.text.payload
       /\ JsonInBraces(fullResponse) =>
            error.kind # "ParseError" /\ parsed = fullResponse.text.payload
       /\ ~(JsonVerbatim(fullResponse) \/ JsonInBraces(fullResponse)) =>
            /\ pc = "failed"
            /\ error = Err("ParseError", "Failed to parse JSON response")
  /\ \A i \in 1..Len(attemptErrors) :
       attemptErrors[i] = "ParseError" =>
         /\ i = Len(attemptErrors) /\ Len(OllamaCalls) = i
         /\ pc = "failed" /\ error.kind = "ParseError"
         /\ ParsedAText /\ ~ParseModelText(fullResponse).ok

\* A first attempt was answered with a JSON object inside other text and
\* returned its record; another was answered with text that holds no JSON
\* and failed without a second request.
C26_Witness ==
  /\ IsOllama /\ fetchCalls = 1
  /\ \/ /\ pc = "complete" /\ fullResponse.text.form = "embedded"
        /\ parsed = ValidPayload
     \/ /\ pc = "failed" /\ fullResponse.text.form = "garbage"
        /\ attemptErrors = <<"ParseError">>

\* The extension getMimeType goes by: the last segment of the file name
LastExtension ==
  IF Len(mimeCall.name) <= 1 THEN "" ELSE mimeCall.name[Len(mimeCall.name)]

\* C27: getMimeType answers for every path, and by the last extension of the
\* file name whatever its letter case: .pdf is PDF, .png PNG, .jpg and .jpeg
\* JPEG, .gif GIF, .webp WebP, and PDF is the answer for an unknown or absent
\* extension; an earlier extension of a multi-dot name does not count.
C27_MimeByLastExtension ==
  mimeCall.pc = "returned" =>
    LET ext == LastExtension
        kind == mimeCall.kind
    IN  /\ kind \in {"application/pdf", "image/png", "image/jpeg", "image/gif",
                     "image/webp"}
        /\ ext \in {".pdf", ".PDF", ".Pdf"} => kind = "application/pdf"
        /\ ext \in {".png", ".PNG", ".Png"} => kind = "image/png"
        /\ ext \in {".jpg", ".JPG", ".jpeg", ".JPEG", ".JpEg"} => kind = "image/jpeg"
        /\ ext \in {".gif", ".GIF"} => kind = "image/gif"
        /\ ext \in {".webp", ".WEBP", ".WebP"} => kind = "image/webp"
        /\ ext \in {"", ".", ".txt", ".TXT", ".doc"} => kind = "application/pdf"

\* INVOICE.backup.PDF was classified as PDF, invoice.pdf.PNG as PNG.
C27_Witness ==
  /\ mimeCall.pc = "returned"
  /\ \/ mimeCall.name = <<"INVOICE", ".backup", ".PDF">>
          /\ mimeCall.kind = "application/pdf"
     \/ mimeCall.name = <<"invoice", ".pdf", ".PNG">> /\ mimeCall.kind = "image/png"

\* The rows stored for a path
RowsOf(rows, path) == {r \in rows : r.pathHash = computePathHash(path)}
OneRowPerPath ==
  \A r1, r2 \in repo.rows : r1.pathHash = r2.pathHash => r1 = r2
\* The row of the path of the call that a step made holds the call's id and
\* data with status pending, and a path that was stored got no further row.
SavedAsGiven ==
  LET call == repo'.last
  IN  /\ \E r \in RowsOf(repo'.rows, call.path) :
           r.id = call.id /\ r.data = call.data /\ r.status = "pending"
      /\ RowsOf(repo.rows, call.path) # {} =>
           Cardinality(repo'.rows) = Cardinality(repo.rows)
      /\ RowsOf(repo.rows, call.path) = {} =>
           Cardinality(repo'.rows) = Cardinality(repo.rows) + 1

\* C28 as stated: after any sequence of saveDocument calls the repository
\* holds at most one record per resolved path, and every save leaves the
\* record of its path with the new id and data and with status pending,
\* replacing the stored record of that path instead of adding one.
C28_EverySaveReplaces ==
  /\ []OneRowPerPath
  /\ [][repo'.saves # repo.saves => SavedAsGiven]_vars

\* C28, amended: the repository holds at most one record per resolved path
\* and per id; a save whose id no record of another path holds resolves and
\* leaves the record of its path with the new id and data and with status
\* pending, replacing the stored record of that path instead of adding one;
\* a save whose id a record of another path holds is rejected and changes
\* nothing.
C28_UpsertByPath ==
  /\ [](OneRowPerPath /\ PrimaryKeyHolds(repo.rows))
  /\ [][repo'.saves # repo.saves =>
          LET call == repo'.last
              held == \E r \in repo.rows :
                        r.id = call.id /\ r.pathHash # computePathHash(call.path)
          IN  /\ call.outcome = (IF held THEN "rejected" ELSE "resolved")
              /\ call.outcome = "resolved" => SavedAsGiven
              /\ call.outcome = "rejected" => repo'.rows = repo.rows]_vars

\* The record that the first call stored under test.pdf was indexed or not,
\* and a later call for ./test.pdf put id 456 in its place: one record, the
\* first one's creation time, pending.
C28_Witness ==
  /\ repo.saves >= 2 /\ repo.last.outcome = "resolved"
  /\ repo.last.path = "./test.pdf" /\ repo.last.id = "456"
  /\ \E r \in repo.rows :
       /\ repo.rows = {r}
       /\ r.id = "456" /\ r.createdAt = 1 /\ r.status = "pending"
       /\ r.pathHash = computePathHash("test.pdf")

\* The call has returned a record, or it has thrown an error: one of the two
Returned == pc = "complete" /\ result # JUndef /\ error = NoError
Threw == pc = "failed" /\ error # NoError /\ result = JUndef

\* C29: provided every external operation eventually returns or fails, every
\* extraction ends, and ends in exactly one of two outcomes, a returned
\* record or a thrown error; after the outcome no further request is issued
\* (to the daemon or to the cloud API), no adapter is entered and no further
\* event reaches the observer.
C29_EveryExtractionEnds ==
  /\ <>Finished
  /\ [](Finished => (Returned \/ Threw) /\ ~(Returned /\ Threw))
  /\ [][Finished => UNCHANGED <<pc, result, error, fetchCalls, geminiCalls,
                                adapterCalls, events, request>>]_vars

\* An extraction that was retried after a validation failure has ended with
\* two requests behind it.
C29_Witness ==
  /\ Finished /\ IsOllama /\ fetchCalls = 2 /\ retryCount = 1
  /\ Returned \/ Threw

IsPdf == getMimeType(filePath) = "application/pdf"

\* C30 as stated: in one extraction the rasterizing and OCR stages run at
\* most once; the retry after a validation failure goes on at the
\* construction of the prompt and neither rasterizes nor runs OCR again.
C30_RetrySkipsRasterAndOcr ==
  retryCount = 1 => pc \notin {"rasterizing", "ocr-ing"}

\* C30, amended: the rasterizing and OCR stages run at most once in each
\* attempt, hence at most twice in one extraction.  A stage is entered only
\* at the start of an invocation of the adapter (OCR also from the
\* rasterizing that precedes it); the retry after a validation failure is a
\* new invocation that starts without OCR text and with the encoded file as
\* its image, and rasterizes the PDF (or, for an image, runs OCR) again
\* before it builds its prompt; every request is sent from the stages of
\* its own attempt.
C30_RetryRunsWholeAdapter ==
  /\ [](Len(OllamaCalls) <= 2)
  /\ [][(pc' = "rasterizing" /\ pc # "rasterizing") =>
          Len(adapterCalls') = Len(adapterCalls) + 1]_vars
  /\ [][(pc' = "ocr-ing" /\ pc # "ocr-ing") =>
          \/ pc = "rasterizing" /\ adapterCalls' = adapterCalls
          \/ ~IsPdf /\ Len(adapterCalls') = Len(adapterCalls) + 1]_vars
  /\ [][retryCount' # retryCount =>
          /\ retryCount = 0 /\ retryCount' = 1
          /\ attemptErrors' = <<"ZodError">>
          /\ Len(adapterCalls') = Len(adapterCalls) + 1
          /\ pc' = (IF IsPdf THEN "rasterizing" ELSE "ocr-ing")
          /\ ocrText' = <<>>
          /\ imageBase64' = [src |-> "file", data |-> base64]
          /\ fetchCalls' = fetchCalls]_vars
  /\ [][fetchCalls' # fetchCalls => pc \in {"rasterizing", "ocr-ing"}]_vars

\* The retry of a PDF whose first attempt recognized text has rasterized
\* the PDF a second time and is at its OCR stage, without OCR text as yet.
C30_Witness ==
  /\ IsOllama /\ IsPdf /\ retryCount = 1
  /\ pc = "ocr-ing" /\ pages >= 1 /\ ocrText = <<>>
  /\ fetchCalls = 1 /\ request.prompt.kind = "ocr"

\* The pages of 1..n, in page order, that `outcome` says gave text
TextPages(outcome, n) ==
  SelectSeq([i \in 1..n |-> i], LAMBDA i : outcome[i] = "text")

\* C31: the request to the local daemon carries exactly one image.  For a PDF
\* that rasterized into n >= 1 pages it is the first page, for any other file
\* the file itself (n = 1); OCR ran over each of the n pages, and the user
\* prompt holds the text of exactly the pages that gave text, in page order.
C31_OneImageAllPagesRead ==
  [][fetchCalls' # fetchCalls =>
       /\ Len(request'.images) = 1
       /\ IsPdf /\ pages' >= 1 =>
            request'.images[1] = [src |-> "page", data |-> <<1>>]
       /\ ~IsPdf =>
            pages = 1 /\ request'.images[1] = [src |-> "file", data |-> base64]
       /\ pages' >= 1 =>
            /\ pc = "ocr-ing"
            /\ \E outcome \in [1..pages -> {"text", "blank", "throws"}] :
                 /\ request'.prompt.text = TextPages(outcome, pages)
                 /\ request'.prompt.text # <<>> => request'.prompt.kind = "ocr"
                 /\ onStream =>
                      SubSeq(events', Len(events) + 1,
                             Len(events) + Len(OcrEvents(outcome, pages)))
                        = OcrEvents(outcome, pages)]_vars

\* A two-page PDF went out with its first page as the image and the text of
\* both pages in the prompt; an image went out as itself with its own text.
C31_Witness ==
  /\ pc = "awaiting-response"
  /\ Len(request.images) = 1
  /\ \/ /\ IsPdf /\ pages = 2
        /\ request.images[1] = [src |-> "page", data |-> <<1>>]
        /\ request.prompt = [kind |-> "ocr", text |-> <<1, 2>>]
     \/ /\ ~IsPdf /\ pages = 1
        /\ request.images[1] = [src |-> "file", data |-> base64]
        /\ request.prompt = [kind |-> "ocr", text |-> <<1>>]

\* The kinds of the events the observer received, in order of delivery
Delivered == [i \in 1..Len(events) |-> events[i].type]

C33_ExtractionStateMachine ==
  /\ [](LET e == extraction
        IN  /\ e.status \in {"idle", "extracting", "saving", "complete", "error"}
            /\ e.saveCalls <= 1
            /\ e.saveCalls = 1 => ~e.dryRun /\ e.result
            /\ e.status = "saving" => e.saveCalls = 1 /\ e.pc = "saveDocument"
            /\ e.onComplete = (IF e.status = "complete" THEN 1 ELSE 0)
            /\ e.onError = (IF e.status = "error" THEN 1 ELSE 0)
            /\ e.status = "complete" => e.result /\ (e.dryRun <=> e.saveCalls = 0)
            /\ e.status = "error" =>
                 IF e.saveCalls = 1
                 THEN e.message = "UNIQUE constraint failed: documents.id"
                 ELSE /\ ~e.result
                      /\ e.message \in {"Gemini API key required",
                                        "Failed to parse JSON response"})
  /\ [][extraction.status' # extraction.status =>
          <<extraction.status, extraction'.status>> \in
             { <<"idle", "extracting">>, <<"extracting", "saving">>,
               <<"extracting", "complete">>, <<"extracting", "error">>,
               <<"saving", "complete">>, <<"saving", "error">> }]_vars

\* A run that was to be saved went through saving and ended in error because
\* saveDocument rejected; onError was called, onComplete was not.
C33_Witness ==
  /\ extraction.status = "error" /\ extraction.saveCalls = 1
  /\ extraction.result /\ ~extraction.dryRun
  /\ extraction.onError = 1 /\ extraction.onComplete = 0

\* The states in which useOllama waits for the user's answer
PromptStates == {"prompt-install", "prompt-start"}

\* C34: extractDocument is not called before the provider is ready.  With
\* provider ollama it is called only after the daemon was found running, or
\* was started and answered the wait, and the model was found present or its
\* pull completed.  After the user declined a prompt the state is cancelled
\* for good, isReady is false and extractDocument is never called.  With
\* another provider the state becomes ready without any Ollama service call.
C34_ReadyBeforeExtraction ==
  /\ [](/\ extraction.extractCalls > 0 =>
             /\ ollama.isReady /\ ollama.status = "ready"
             /\ ollama.provider = "ollama" =>
                  /\ ollama.daemon = "running"
                  /\ ollama.model \in {"present", "pulled"}
                  /\ \E i \in 1..Len(ollama.calls) :
                       ollama.calls[i] \in {"checkOllamaRunning", "waitForOllama"}
                  /\ ollama.calls[Len(ollama.calls)] \in {"checkModelExists", "pullModel"}
        /\ ollama.isReady <=> ollama.status = "ready"
        /\ ollama.status = "cancelled" =>
             ~ollama.isReady /\ extraction.extractCalls = 0
        /\ ollama.provider # "ollama" =>
             /\ ollama.calls = <<>>
             /\ ollama.pc # "mounted" => ollama.status = "ready")
  /\ [][/\ ollama.status = "cancelled" => ollama'.status = "cancelled"
        /\ ollama.status \in PromptStates /\ ollama'.status = "cancelled"
             => ollama.isInteractive]_vars

\* The daemon was not running; it was started, answered, the model was
\* pulled, and then the extraction began.
C34_Witness ==
  /\ extraction.extractCalls = 1
  /\ ollama.calls = <<"checkOllamaRunning", "checkOllamaInstalled", "startOllama",
                      "waitForOllama", "checkModelExists", "pullModel">>
  /\ ollama.model = "pulled"

\* C38: one mounted useExtraction starts at most one extraction.
\* runExtraction is run only while shouldStart is true and the state is
\* idle, no state reached afterwards is ever followed by idle, and so
\* extractDocument is called at most once: a failed extraction is not begun
\* again.
C38_StartsAtMostOnce ==
  /\ [](/\ extraction.extractCalls <= 1
        /\ extraction.status = "idle" <=> extraction.extractCalls = 0)
  /\ [][/\ extraction'.extractCalls # extraction.extractCalls =>
             /\ ShouldStart /\ extraction.status = "idle"
             /\ extraction'.status = "extracting"
        /\ extraction.status # "idle" => extraction'.status # "idle"]_vars

\* An extraction failed; the hook is in error, shouldStart is still true,
\* and extractDocument was called once.
C38_Witness ==
  /\ extraction.status = "error" /\ extraction.pc = "returned"
  /\ ShouldStart
  /\ extraction.extractCalls = 1

\* C37: the throttled display loses and reorders nothing.  Whatever the
\* number and the timing of the response chunks, the displayed
\* responseContent is at every moment a prefix of the fragments that have
\* arrived, in the order of their arrival; once the state is complete it is
\* all of them, and no throttle timer is pending.
C37_DisplayIsFaithful ==
  LET e == extraction
      shown == e.responseContent
  IN  /\ Len(shown) <= Len(e.arrived)
      /\ shown = SubSeq(e.arrived, 1, Len(shown))
      /\ e.status \in {"saving", "complete"} =>
           shown = e.arrived /\ e.updateTimerRef = 0

\* Three fragments arrived, the second and the third within the throttle
\* interval of the first, so a timer was pending; the run is complete and
\* the display shows the three.
C37_Witness ==
  /\ extraction.status = "complete"
  /\ Len(extraction.arrived) = 3
  /\ extraction.responseContent = extraction.arrived
  /\ extraction.now - extraction.lastUpdateRef < THROTTLE_MS
  /\ extraction.now < 1000 + THROTTLE_MS

\* The last service call the hook made has ended, and it was `name`
Ended(name) ==
  /\ ollama.calls # <<>>
  /\ ollama.calls[Len(ollama.calls)] = name
  /\ ollama.pc # name

\* C39: a failed pullModel ends in the error state with the failure's
\* message, whether the model check was entered from the initial check or
\* after a confirmed start; the state does not stay in checking-model or
\* pulling-model after the operation has failed.
C39_PullFailureIsError ==
  Ended("pullModel") /\ ollama.model # "pulled" =>
    /\ ollama.status = "error"
    /\ ollama.message \in {"Failed to pull model: Not Found", "No response body"}

\* C35: without raw mode useOllama needs no input.  If every service call
\* settles and every timer fires, the state reaches ready or error, and a
\* prompt state is always left again.
C35_UnattendedRunEnds ==
  ~ollama.isInteractive =>
    /\ <>(ollama.status \in {"ready", "error"})
    /\ [](ollama.status \in PromptStates => <>(ollama.status \notin PromptStates))

\* C36 as stated: the handler for extract_document returns every failure of
\* extractDocument as a tool result, and only an unknown tool name makes the
\* handler throw.
C36_OnlyUnknownToolThrows ==
  mcp.pc = "thrown" => mcp.name \notin {"extract_document", "search_documents"}

\* C36, amended: once the handler has called extractDocument it never
\* throws: every failure of extractDocument (missing file, missing key,
\* unsupported provider, daemon error, parse or validation failure) comes
\* back as a tool result with isError true and the text "Error: " followed
\* by the error's message.  The handler throws only for an unknown tool name
\* and for an extract_document request that carries no arguments.
C36_ExtractionFailureIsToolResult ==
  /\ [](mcp.pc = "thrown" =>
          \/ mcp.name \notin {"extract_document", "search_documents"}
               /\ mcp.thrown = "Unknown tool"
          \/ mcp.name = "extract_document" /\ ~mcp.arguments)
  /\ [](mcp.pc = "returned" /\ mcp.isError =>
          /\ mcp.name = "extract_document"
          /\ Len(mcp.content) = 2 /\ mcp.content[1] = "Error: "
          /\ mcp.content[2] \in ExtractionOutcomes(mcp.filepath, mcp.config) \ {""})
  /\ [][mcp.pc = "extractDocument" /\ mcp'.pc # "extractDocument" =>
          /\ mcp'.pc = "returned"
          /\ mcp'.isError <=> mcp'.content # <<"JSON.stringify(result)">>]_vars

\* extractDocument failed for want of an API key and the handler returned
\* the error as a tool result.
C36_Witness ==
  /\ mcp.pc = "returned" /\ mcp.isError
  /\ mcp.content = <<"Error: ", "Gemini API key required">>
  /\ mcp.provider = ""

\* The rows stored under other paths than `path`
OtherRows(rows, path) == {r \in rows : r.pathHash # computePathHash(path)}

\* C40: a saveDocument call for one path leaves the records of every other
\* path as they are (id, data, status, creation time), whether it resolves
\* or rejects; in particular a save whose document id is already stored
\* under another path neither overwrites nor removes that record.
C40_OtherPathsUntouched ==
  [][repo'.saves # repo.saves =>
       OtherRows(repo'.rows, repo'.last.path) = OtherRows(repo.rows, repo'.last.path)]_vars

\* A record was saved under a second path with an id that the first path's
\* record holds; the first record is still stored, with its data.
C40_Witness ==
  /\ repo.saves = 2
  /\ repo.last.path = "./test.pdf" /\ repo.last.id = "123"
  /\ \E r \in repo.rows :
       /\ r.pathHash = computePathHash("/tmp/invoice.pdf")
       /\ r.id = "123" /\ r.createdAt = 1
       /\ r.data # repo.last.data

====
